---- MODULE Spec2Model ----
(***************************************************************************)
(* State-machine model of the optimisation engine of quantum-agentics      *)
(* (package qam): the reasoning-weighted QUBO scheduler, its classical and *)
(* external solvers, the quantum reasoning state, the hierarchical QUBO    *)
(* composer, the per-cluster worker pool, the QuantumReACT learner and its *)
(* decisions, the QUBO term builder, the QAOA optimizer and its mixing     *)
(* operator, the cluster assignment of the enhanced scheduler, the         *)
(* orchestration protocol's message queue, the resource manager's pools    *)
(* and the cluster manager's optimisation of cluster trees.                *)
(*                                                                         *)
(* Each component is a group of variables with its own initial predicate,  *)
(* next-state relation and specification; the variables of the other       *)
(* groups stay at their idle values.                                       *)
(*                                                                         *)
(* Numbers.  Python floats are modelled exactly where the code's           *)
(* arithmetic stays rational (fractions <<num, den>> in lowest terms) and  *)
(* as fixed-point integers (unit 1/SCALE) where it does not (exp, the      *)
(* learner's repeated multiplications).                                    *)
(***************************************************************************)
EXTENDS Integers, Sequences, FiniteSets, TLC

VARIABLES
    \* QUBOScheduler.optimize_schedule_with_reasoning
    tasks, horizon, attempt, best_schedule, best_energy, sched_pc,
    \* QUBOScheduler._solve_quantum and _solve_classical
    terms, size, solver_pc, entry, caught, response, solution, energy,
    seed_energy, flip_i, improved,
    \* QuantumReasoningState
    rstate, history_len, rcalls,
    \* HierarchicalQUBO
    levels, connections, combined_matrix, h_solution, h_energy, h_pc,
    h_pos, h_improved, h_iter,
    \* EnhancedQUBOScheduler.build_hierarchical_qubo: the worker threads
    cluster_tasks, reasoning_weights, w_pc, w_probs, w_k, w_read, w_total,
    w_terms,
    \* QuantumReACT
    decision_weights, outcomes_len, decided,
    \* QuantumReACT.make_decision on a caller's QuantumReasoningState
    d_state, d_history_len, d_actions, d_weights, d_outcomes_len, d_op, d_ret, d_calls,
    \* QUBO term builder
    b_task, b_horizon, b_weight, b_terms, b_x, b_energy, b_pc,
    \* QAOAOptimizer.optimize
    q_hamiltonian, q_max_iterations, q_gamma, q_beta, q_state, q_energies, q_iteration, q_converged, q_result, q_pc,
    \* EnhancedQUBOScheduler._assign_tasks_to_clusters on two instances
    cluster_assignments, a_grouping, a_prior, a_pc,
    \* EnhancedQUBOScheduler.build_hierarchical_qubo: the futures
    p_clusters, p_status, p_result, p_futures, p_next, p_levels, p_pc,
    \* HierarchicalQUBO.add_level and add_connection
    c_levels, c_connections, c_op, c_args, c_ret, c_calls,
    \* QuantumOrchestrationProtocol
    routing_table, handlers, component_status, message_queue, messages, delivery_history, now, o_op, o_ret,
    \* ResourceManager
    resource_pools, allocation_history, r_op, r_ret, r_calls,
    \* ClusterManager.optimize_cluster_structure
    root_clusters, cluster_objects, structure, k_path, k_calls,
    \* QAOAOptimizer._apply_mixing_operator
    m_state, m_beta, m_result, m_pc

schedVars == <<tasks, horizon, attempt, best_schedule, best_energy, sched_pc>>

solverVars == <<terms, size, solver_pc, entry, caught, response, solution,
                energy, seed_energy, flip_i, improved>>

reasonVars == <<rstate, history_len, rcalls>>

hierVars == <<levels, connections, combined_matrix, h_solution, h_energy,
              h_pc, h_pos, h_improved, h_iter>>

workerVars == <<cluster_tasks, reasoning_weights, w_pc, w_probs, w_k,
                w_read, w_total, w_terms>>

reactVars == <<decision_weights, outcomes_len, decided>>

decideVars == <<d_state, d_history_len, d_actions, d_weights, d_outcomes_len, d_op, d_ret, d_calls>>

buildVars == <<b_task, b_horizon, b_weight, b_terms, b_x, b_energy, b_pc>>

qaoaVars == <<q_hamiltonian, q_max_iterations, q_gamma, q_beta, q_state, q_energies, q_iteration, q_converged, q_result, q_pc>>

assignVars == <<cluster_assignments, a_grouping, a_prior, a_pc>>

poolVars == <<p_clusters, p_status, p_result, p_futures, p_next, p_levels, p_pc>>

connVars == <<c_levels, c_connections, c_op, c_args, c_ret, c_calls>>

protoVars == <<routing_table, handlers, component_status, message_queue, messages, delivery_history, now, o_op, o_ret>>

resVars == <<resource_pools, allocation_history, r_op, r_ret, r_calls>>

clusVars == <<root_clusters, cluster_objects, structure, k_path, k_calls>>

mixVars == <<m_state, m_beta, m_result, m_pc>>

vars == <<schedVars, solverVars, reasonVars, hierVars, workerVars, reactVars, decideVars, buildVars, qaoaVars, assignVars, poolVars, connVars, protoVars, resVars, clusVars,
         mixVars>>

(***************************************************************************)
(* Bounds of the model.                                                    *)
(***************************************************************************)
MaxTasks == 2
MaxHorizon == 4
MaxSize == 2
MaxPaths == 2
MaxCalls == 3
Magnitude == 2000000
MaxVars == 2
MaxClusterTasks == 2
MaxQubits == 2
MaxRoots == 2
MaxOptimizeCalls == 2
MaxAmount == 2
MaxResourceCalls == 4
MaxMessages == 3
MaxClock == 2
MaxLevels == 2
MaxConnectionCalls == 4
MaxClusters == 2
MaxPoolTasks == 1
MaxPriorCalls == 1
MaxIterations == 3
MaxDuration == 2
MaxMakespanQuarters == 8
MaxDecideCalls == 3
MaxPathIds == 3
MaxOutcomes == 15

(***************************************************************************)
(* Generic helpers.                                                        *)
(***************************************************************************)
Abs(x) == IF x < 0 THEN -x ELSE x

Max2(a, b) == IF a >= b THEN a ELSE b

Min2(a, b) == IF a <= b THEN a ELSE b

RECURSIVE SumSeq(_)
SumSeq(s) == IF s = <<>> THEN 0 ELSE Head(s) + SumSeq(Tail(s))

RECURSIVE SetMax(_)
SetMax(S) ==
    IF S = {} THEN 0
    ELSE LET x == CHOOSE y \in S : TRUE
         IN Max2(x, SetMax(S \ {x}))

\* A float that may be float('inf').
Infinity == [inf |-> TRUE, value |-> 0]

Finite(x) == [inf |-> FALSE, value |-> x]

(***************************************************************************)
(* Group bookkeeping: every specification starts the other groups idle and *)
(* every action leaves them unchanged.                                     *)
(***************************************************************************)
SchedIdle ==
    /\ tasks = <<>>
    /\ horizon = 0
    /\ attempt = 0
    /\ best_schedule = <<>>
    /\ best_energy = Infinity
    /\ sched_pc = "idle"

NoResponse == [shape |-> "none", bits |-> <<>>]

SolverIdle ==
    /\ terms = <<>>
    /\ size = 0
    /\ solver_pc = "idle"
    /\ entry = "none"
    /\ caught = "none"
    /\ response = NoResponse
    /\ solution = <<>>
    /\ energy = 0
    /\ seed_energy = 0
    /\ flip_i = 0
    /\ improved = FALSE

\* QuantumReasoningState.__init__: no paths.  A state is a record
\*   amps : path id -> [sign, num]   amplitude = sign * sqrt(num / den)
\*   den  : the common denominator of the squared amplitudes
\*   nan  : every amplitude is NaN
EmptyState == [amps |-> <<>>, den |-> 1, nan |-> FALSE]

ReasonIdle ==
    /\ rstate = EmptyState
    /\ history_len = 0
    /\ rcalls = 0

HierIdle ==
    /\ levels = <<>>
    /\ connections = <<>>
    /\ combined_matrix = <<>>
    /\ h_solution = <<>>
    /\ h_energy = 0
    /\ h_pc = "idle"
    /\ h_pos = 0
    /\ h_improved = FALSE
    /\ h_iter = 0

WorkersIdle ==
    /\ cluster_tasks = <<>>
    /\ reasoning_weights = <<>>
    /\ w_pc = <<>>
    /\ w_probs = <<>>
    /\ w_k = <<>>
    /\ w_read = <<>>
    /\ w_total = <<>>
    /\ w_terms = <<>>

ReactIdle ==
    /\ decision_weights = <<>>
    /\ outcomes_len = 0
    /\ decided = "none"

\* What a call hands back: the fields of the Decision (or the measured
\* path) or that it raised; prob is the probability the measurement gave
\* to the path it selected.
NoReturn ==
    [raised |-> FALSE, action |-> "none", confidence |-> <<0, 1>>,
     prob |-> <<0, 1>>, available |-> <<>>, path |-> 0]

DecideIdle ==
    /\ d_state = EmptyState
    /\ d_history_len = 0
    /\ d_actions = <<>>
    /\ d_weights = <<>>
    /\ d_outcomes_len = 0
    /\ d_op = "none"
    /\ d_ret = NoReturn
    /\ d_calls = 0

BuildIdle ==
    /\ b_task = <<>>
    /\ b_horizon = 0
    /\ b_weight = 0
    /\ b_terms = <<>>
    /\ b_x = <<>>
    /\ b_energy = 0
    /\ b_pc = "idle"

QaoaIdle ==
    /\ q_hamiltonian = <<>>
    /\ q_max_iterations = 0
    /\ q_gamma = <<>>
    /\ q_beta = <<>>
    /\ q_state = <<>>
    /\ q_energies = <<>>
    /\ q_iteration = 0
    /\ q_converged = FALSE
    /\ q_result = <<>>
    /\ q_pc = "idle"

AssignIdle ==
    /\ cluster_assignments = <<>>
    /\ a_grouping = <<>>
    /\ a_prior = 0
    /\ a_pc = "idle"

PoolIdle ==
    /\ p_clusters = <<>>
    /\ p_status = <<>>
    /\ p_result = <<>>
    /\ p_futures = <<>>
    /\ p_next = 0
    /\ p_levels = <<>>
    /\ p_pc = "idle"

ConnIdle ==
    /\ c_levels = <<>>
    /\ c_connections = <<>>
    /\ c_op = "none"
    /\ c_args = <<>>
    /\ c_ret = "none"
    /\ c_calls = 0

ProtoIdle ==
    /\ routing_table = <<>>
    /\ handlers = {}
    /\ component_status = <<>>
    /\ message_queue = <<>>
    /\ messages = <<>>
    /\ delivery_history = <<>>
    /\ now = 0
    /\ o_op = "none"
    /\ o_ret = [value |-> FALSE, message |-> 0, outcome |-> "none"]

ResIdle ==
    /\ resource_pools = <<>>
    /\ allocation_history = <<>>
    /\ r_op = "none"
    /\ r_ret = "none"
    /\ r_calls = 0

ClusIdle ==
    /\ root_clusters = <<>>
    /\ cluster_objects = <<>>
    /\ structure = <<>>
    /\ k_path = "none"
    /\ k_calls = 0

MixIdle ==
    /\ m_state = <<>>
    /\ m_beta = 0
    /\ m_result = <<>>
    /\ m_pc = "none"

IdleExcept(g) ==
    /\ IF g = "sched" THEN TRUE ELSE SchedIdle
    /\ IF g = "solver" THEN TRUE ELSE SolverIdle
    /\ IF g = "reason" THEN TRUE ELSE ReasonIdle
    /\ IF g = "hier" THEN TRUE ELSE HierIdle
    /\ IF g = "workers" THEN TRUE ELSE WorkersIdle
    /\ IF g = "react" THEN TRUE ELSE ReactIdle
    /\ IF g = "decide" THEN TRUE ELSE DecideIdle
    /\ IF g = "build" THEN TRUE ELSE BuildIdle
    /\ IF g = "qaoa" THEN TRUE ELSE QaoaIdle
    /\ IF g = "assign" THEN TRUE ELSE AssignIdle
    /\ IF g = "pool" THEN TRUE ELSE PoolIdle
    /\ IF g = "conn" THEN TRUE ELSE ConnIdle
    /\ IF g = "proto" THEN TRUE ELSE ProtoIdle
    /\ IF g = "res" THEN TRUE ELSE ResIdle
    /\ IF g = "clus" THEN TRUE ELSE ClusIdle
    /\ IF g = "mix" THEN TRUE ELSE MixIdle

UnchangedExcept(g) ==
    /\ IF g = "sched" THEN TRUE ELSE UNCHANGED schedVars
    /\ IF g = "solver" THEN TRUE ELSE UNCHANGED solverVars
    /\ IF g = "reason" THEN TRUE ELSE UNCHANGED reasonVars
    /\ IF g = "hier" THEN TRUE ELSE UNCHANGED hierVars
    /\ IF g = "workers" THEN TRUE ELSE UNCHANGED workerVars
    /\ IF g = "react" THEN TRUE ELSE UNCHANGED reactVars
    /\ IF g = "decide" THEN TRUE ELSE UNCHANGED decideVars
    /\ IF g = "build" THEN TRUE ELSE UNCHANGED buildVars
    /\ IF g = "qaoa" THEN TRUE ELSE UNCHANGED qaoaVars
    /\ IF g = "assign" THEN TRUE ELSE UNCHANGED assignVars
    /\ IF g = "pool" THEN TRUE ELSE UNCHANGED poolVars
    /\ IF g = "conn" THEN TRUE ELSE UNCHANGED connVars
    /\ IF g = "proto" THEN TRUE ELSE UNCHANGED protoVars
    /\ IF g = "res" THEN TRUE ELSE UNCHANGED resVars
    /\ IF g = "clus" THEN TRUE ELSE UNCHANGED clusVars
    /\ IF g = "mix" THEN TRUE ELSE UNCHANGED mixVars

(***************************************************************************)
(* QUBO term weights (scheduler.py).  Fixed point, unit 1/SCALE.           *)
(***************************************************************************)
SCALE == 1000 * 1000

\* 0.5 * exp(-d) in units of 1/SCALE, d = |i - j|; 1.0 on the diagonal.
HalfExpNeg(d) ==
    CASE d = 1 -> 183940
      [] d = 2 -> 67668
      [] d = 3 -> 24894
      [] d = 4 -> 9158
      [] d = 5 -> 3369
      [] OTHER -> 0

_calculate_base_weight(i, j) ==
    IF i = j THEN SCALE ELSE HalfExpNeg(Abs(i - j))

(***************************************************************************)
(* optimize_schedule_with_reasoning.  A task is a record                   *)
(* [id, dependencies, resources]; a missing 'dependencies' or 'resources'  *)
(* key behaves as the empty list.  Slots and matrix indices are 0-based as *)
(* in the code; sequences are 1-based, so task i of the code is tasks[i+1].*)
(* The reasoning state handed to the scheduler is the empty one (as in     *)
(* test_resource_utilization), so every reasoning factor is 0 and          *)
(* Q[i][j] is the base weight.                                             *)
(***************************************************************************)
TaskIds == {"task1", "task2", "task3", "task4", "task5"}

IdOf(k) ==
    CASE k = 1 -> "task1" [] k = 2 -> "task2" [] k = 3 -> "task3"
      [] k = 4 -> "task4" [] OTHER -> "task5"

ResourceTags == {"cpu"}

\* A scheduler that iterates over `tasks` instead of `tasks[:horizon]`.
TasksNotCut == tasks

\* tasks[:horizon]
TasksTaken == SubSeq(tasks, 1, Min2(Len(tasks), horizon))

\* Q[i][j] of lines 228-232 (symmetric), with the empty reasoning state.
QEntry(i, j) == _calculate_base_weight(Min2(i, j), Max2(i, j))

\* schedule @ Q @ schedule for a 0-based slot vector s (a sequence).
\* numpy raises ValueError when the vector's length is not Q's dimension.
MatMulShapeOk(s) == Len(s) = horizon

QuadraticForm(s) ==
    LET Row(a) == SumSeq([b \in 1..Len(s) |-> s[a] * QEntry(a - 1, b - 1) * s[b]])
    IN SumSeq([a \in 1..Len(s) |-> Row(a)])

\* _validate_resources(ts, schedule): ts a sequence of tasks, schedule a
\* function from ids to slots (schedule.get gives None off its domain).
\* Within one slot the code unions the resource sets in list order and
\* fails at the first overlap: that is, two tasks of ts in the same slot
\* share a tag.
_validate_resources(ts, schedule) ==
    \A a, b \in 1..Len(ts) :
        (/\ a < b
         /\ ts[a].id \in DOMAIN schedule
         /\ ts[b].id \in DOMAIN schedule
         /\ schedule[ts[a].id] = schedule[ts[b].id])
        => ts[a].resources \cap ts[b].resources = {}

\* _validate_dependencies(ts, schedule)
_validate_dependencies(ts, schedule) ==
    \A a \in 1..Len(ts) :
        ts[a].id \in DOMAIN schedule =>
            \A dep \in ts[a].dependencies :
                dep \in DOMAIN schedule => schedule[dep] < schedule[ts[a].id]

\* Lines 246-251: the earliest slot of task number i (1-based) given the
\* slots `partial` of the tasks before it; only dependencies that come
\* EARLIER in the list (j < i) are looked at.
MinSlot(i, partial) ==
    SetMax({0} \cup
        {partial[j] + 1 : j \in {k \in 1..(i - 1) :
                                    TasksTaken[k].id \in TasksTaken[i].dependencies}})

\* The dict handed to _validate_resources on line 257.
ScheduleDict(i, partial, slot) ==
    [id \in {TasksTaken[k].id : k \in 1..i} |->
        IF id = TasksTaken[i].id THEN slot
        ELSE partial[CHOOSE k \in 1..(i - 1) : TasksTaken[k].id = id]]

\* A scheduler that forgets `available_slots.remove(slot)`.
AvailableSlotsNotRemoved(partial) == 0..(horizon - 1)

\* Lines 254-258; available_slots is the horizon minus the slots taken.
AvailableSlots(partial) ==
    (0..(horizon - 1)) \ {partial[k] : k \in 1..Len(partial)}

ValidSlots(i, partial) ==
    {slot \in AvailableSlots(partial) :
        /\ slot >= MinSlot(i, partial)
        /\ _validate_resources(SubSeq(TasksTaken, 1, i - 1),
                               ScheduleDict(i, partial, slot))}

\* Every way one attempt of lines 241-266 can end: a complete slot vector
\* (the for-else branch) or a break with no valid slot.
RECURSIVE AttemptOutcomes(_)
AttemptOutcomes(partial) ==
    IF Len(partial) = Len(TasksTaken)
    THEN {[complete |-> TRUE, schedule |-> partial]}
    ELSE LET i == Len(partial) + 1
             valid == ValidSlots(i, partial)
         IN IF valid = {}
            THEN {[complete |-> FALSE, schedule |-> partial]}
            ELSE UNION {AttemptOutcomes(Append(partial, slot)) : slot \in valid}

\* Line 237.
max_attempts == 100

\* Lines 274-277.
AsScheduleDict(s) ==
    [id \in {TasksTaken[k].id : k \in 1..Len(s)} |->
        s[CHOOSE k \in 1..Len(s) : TasksTaken[k].id = id]]

\* Lines 281-284: task i gets slot i.
SequentialSchedule ==
    [id \in {TasksTaken[k].id : k \in 1..Len(TasksTaken)} |->
        (CHOOSE k \in 1..Len(TasksTaken) : TasksTaken[k].id = id) - 1]

SequentialVector == [k \in 1..Len(TasksTaken) |-> k - 1]

\* `energy < best_energy` with best_energy = float('inf') at the start.
EnergyLess(e, best) == best.inf \/ e < best.value

\* The task lists the scheduler is called with: unique ids, dependencies
\* on any other listed task (earlier or later), at most one per task.
SchedInit ==
    /\ horizon \in 0..MaxHorizon
    /\ tasks \in {ts \in UNION {[1..n -> [id : {IdOf(m) : m \in 1..n},
                                            dependencies : {d \in SUBSET {IdOf(m) : m \in 1..n} :
                                                                Cardinality(d) <= 1},
                                            resources : SUBSET ResourceTags]]
                                : n \in 1..MaxTasks} :
                     \A k \in 1..Len(ts) : /\ ts[k].id = IdOf(k)
                                             /\ ts[k].id \notin ts[k].dependencies}
    /\ attempt = 0
    /\ best_schedule = <<>>
    /\ best_energy = Infinity
    /\ sched_pc = "search"

\* One attempt of the loop of line 239.
Attempt ==
    /\ sched_pc = "search"
    /\ attempt < max_attempts
    /\ \E o \in AttemptOutcomes(<<>>) :
          IF ~o.complete
          THEN /\ attempt' = attempt + 1
               /\ UNCHANGED <<best_schedule, best_energy, sched_pc>>
          ELSE IF ~MatMulShapeOk(o.schedule)
          THEN /\ sched_pc' = "raised"
               /\ UNCHANGED <<attempt, best_schedule, best_energy>>
          ELSE /\ attempt' = attempt + 1
               /\ IF EnergyLess(QuadraticForm(o.schedule), best_energy)
                  THEN /\ best_energy' = Finite(QuadraticForm(o.schedule))
                       /\ best_schedule' = AsScheduleDict(o.schedule)
                  ELSE UNCHANGED <<best_schedule, best_energy>>
               /\ UNCHANGED sched_pc
    /\ UNCHANGED <<tasks, horizon>>
    /\ UnchangedExcept("sched")

\* Lines 279-291, after the last attempt.
Finish ==
    /\ sched_pc = "search"
    /\ attempt = max_attempts
    /\ IF DOMAIN best_schedule # {}
       THEN /\ sched_pc' = "returned"
            /\ UNCHANGED <<best_schedule, best_energy>>
       ELSE IF ~MatMulShapeOk(SequentialVector)
       THEN /\ sched_pc' = "raised"
            /\ UNCHANGED <<best_schedule, best_energy>>
       ELSE /\ sched_pc' = "fallback_returned"
            /\ best_schedule' = SequentialSchedule
            /\ best_energy' = Finite(QuadraticForm(SequentialVector))
    /\ UNCHANGED <<tasks, horizon, attempt>>
    /\ UnchangedExcept("sched")

InitSched == SchedInit /\ IdleExcept("sched")

NextSched == Attempt \/ Finish

SpecSched == InitSched /\ [][NextSched]_vars

(***************************************************************************)
(* Properties of optimize_schedule_with_reasoning.                         *)
(***************************************************************************)
Returned == sched_pc \in {"returned", "fallback_returned"}

\* The ids a task transitively depends on, following at most k edges.
RECURSIVE DependsOn(_, _)
DependsOn(id, k) ==
    IF k = 0 THEN {}
    ELSE LET direct == UNION {tasks[m].dependencies : m \in {n \in 1..Len(tasks) : tasks[n].id = id}}
         IN direct \cup UNION {DependsOn(d, k - 1) : d \in direct}

AcyclicDependencies ==
    \A m \in 1..Len(tasks) : tasks[m].id \notin DependsOn(tasks[m].id, Len(tasks))

\* C1: in every returned schedule (searched or sequential fallback), a task
\* that lists another task in its dependencies is placed strictly after it
\* whenever both are scheduled.  Stated for satisfiable (acyclic)
\* dependencies only, so that a violation is the scheduler's doing.
C1_DependenciesRespected ==
    (Returned /\ AcyclicDependencies) =>
        \A a, b \in 1..Len(tasks) :
            (/\ tasks[a].id \in tasks[b].dependencies
             /\ tasks[a].id \in DOMAIN best_schedule
             /\ tasks[b].id \in DOMAIN best_schedule)
            => best_schedule[tasks[a].id] < best_schedule[tasks[b].id]

\* C2: a call with a non-empty task list shorter than the horizon does not
\* raise, and its schedule holds every task id.
C2_ShorterThanHorizonReturns ==
    (Len(tasks) > 0 /\ Len(tasks) < horizon) =>
        /\ sched_pc # "raised"
        /\ Returned => \A k \in 1..Len(tasks) : tasks[k].id \in DOMAIN best_schedule

\* C3: in every returned schedule two distinct tasks that share a resource
\* tag are in different slots.
C3_ResourceExclusive ==
    Returned =>
        \A a, b \in 1..Len(tasks) :
            (/\ a # b
             /\ tasks[a].resources \cap tasks[b].resources # {}
             /\ tasks[a].id \in DOMAIN best_schedule
             /\ tasks[b].id \in DOMAIN best_schedule)
            => best_schedule[tasks[a].id] # best_schedule[tasks[b].id]

C3_Witness ==
    /\ sched_pc = "returned"
    /\ \E a, b \in 1..Len(tasks) :
          /\ a # b
          /\ tasks[a].resources \cap tasks[b].resources # {}
          /\ {tasks[a].id, tasks[b].id} \subseteq DOMAIN best_schedule

\* C21: for a task list with unique ids and 1 <= horizon <= len(tasks) the
\* call returns, the keys of the returned schedule are exactly the ids of
\* the first `horizon` tasks, and its values are pairwise distinct slots
\* in 0..horizon-1.
C21_FirstHorizonTasksInDistinctSlots ==
    (1 <= horizon /\ horizon <= Len(tasks)) =>
        /\ sched_pc # "raised"
        /\ Returned =>
              /\ DOMAIN best_schedule = {tasks[k].id : k \in 1..horizon}
              /\ \A id \in DOMAIN best_schedule :
                    best_schedule[id] \in 0..(horizon - 1)
              /\ \A a, b \in DOMAIN best_schedule :
                    a # b => best_schedule[a] # best_schedule[b]

C21_Witness ==
    /\ Returned
    /\ 1 <= horizon
    /\ horizon < Len(tasks)
    /\ DOMAIN best_schedule = {tasks[k].id : k \in 1..horizon}

(***************************************************************************)
(* _solve_quantum and _solve_classical (scheduler.py:97-151).  A term is a *)
(* record [i, j, weight] with 0-based indices; a solution is a sequence of *)
(* `size` bits, bit i of the code being solution[i + 1].  Weights are      *)
(* small integers.  The external solver (azure_quantum.py) answers each    *)
(* call with any of the outcomes its code can produce.                     *)
(***************************************************************************)
Weights == {-2, -1, 1}

\* The index pairs in the order build_qubo_with_reasoning emits them.
RECURSIVE PairsFrom(_, _, _)
PairsFrom(i, j, n) ==
    IF i >= n THEN <<>>
    ELSE IF j >= n THEN PairsFrom(i + 1, i + 1, n)
    ELSE <<(<<i, j>>)>> \o PairsFrom(i, j + 1, n)

TermPairs(n) == PairsFrom(0, 0, n)

TermLists(n) ==
    {[k \in 1..Len(TermPairs(n)) |->
        [i |-> TermPairs(n)[k][1], j |-> TermPairs(n)[k][2], weight |-> w[k]]]
     : w \in [1..Len(TermPairs(n)) -> Weights]}

BitVectors(n) == [1..n -> {0, 1}]

\* _calculate_energy(solution, terms)
_calculate_energy(sol, ts) ==
    SumSeq([k \in 1..Len(ts) |->
        IF ts[k].i = ts[k].j
        THEN ts[k].weight * sol[ts[k].i + 1]
        ELSE ts[k].weight * sol[ts[k].i + 1] * sol[ts[k].j + 1]])

\* A greedy step that keeps a flip when the energy goes up.
AcceptsWorse(new_energy, old_energy) == new_energy > old_energy

\* A greedy step that also keeps a flip that leaves the energy as it was.
AcceptsNotWorse(new_energy, old_energy) == new_energy <= old_energy

\* Line 134: `if new_energy < energy`.
AcceptsFlip(new_energy, old_energy) == new_energy < old_energy

\* solution[i] = 1 - solution[i]
Flipped(sol, i) == [sol EXCEPT ![i + 1] = 1 - sol[i + 1]]

\* A handler written `except RuntimeError` instead of `except Exception`.
CatchesRuntimeErrorOnly(exc) == exc = "RuntimeError"

\* Line 115: `except Exception` catches every exception the try block can
\* raise (RuntimeError, ValueError, TimeoutError, IndexError,
\* AttributeError are all subclasses of Exception).
Catches(exc) ==
    exc \in {"RuntimeError", "ValueError", "TimeoutError", "IndexError",
             "AttributeError"}

\* submit_qubo: the job id, or RuntimeError (the CLI fails, the answer is
\* not JSON), or ValueError (no job id in the answer).
SubmitOutcomes == {"ok", "RuntimeError", "ValueError"}

\* wait_for_job: TimeoutError, RuntimeError (failed job, unreadable
\* output), or the parsed JSON of the job's output.
WaitFailures == {"TimeoutError", "RuntimeError"}

\* The JSON values a job can give: the two success shapes, and malformed
\* ones.
Responses(n) ==
    [shape : {"solution_list", "configuration"}, bits : BitVectors(n)]
    \cup {[shape |-> sh, bits |-> <<>>] :
            sh \in {"empty_solutions", "bad_value", "not_a_dict"}}

\* Lines 108-112: what reading the result raises.
\*   {solutions: []}                   -> [ ][0] raises IndexError
\*   a configuration value no float    -> float() raises ValueError
\*   a JSON value that is no object    -> result.get raises AttributeError
ParseException(r) ==
    CASE r.shape = "empty_solutions" -> "IndexError"
      [] r.shape = "bad_value" -> "ValueError"
      [] r.shape = "not_a_dict" -> "AttributeError"
      [] OTHER -> "none"

\* Lines 108-114: np.zeros(size), overwritten from the configuration when
\* result['solutions'][0] has one.  A {solution: [...]} response has no
\* 'solutions' key: the default [{}] is used and the zeros are returned.
ParseSolution(r, n) ==
    IF r.shape = "configuration"
    THEN [k \in 1..n |-> r.bits[k]]
    ELSE [k \in 1..n |-> 0]

SolverInit ==
    /\ size \in 1..MaxSize
    /\ terms \in TermLists(size)
    /\ entry \in {"_solve_quantum", "_solve_classical"}
    /\ solver_pc = IF entry = "_solve_quantum" THEN "submit" ELSE "seed"
    /\ caught = "none"
    /\ response = NoResponse
    /\ solution = <<>>
    /\ energy = 0
    /\ seed_energy = 0
    /\ flip_i = 0
    /\ improved = FALSE

\* The except clause of _solve_quantum: fall back, or let the exception out.
Handle(exc) ==
    IF Catches(exc)
    THEN /\ solver_pc' = "seed"
         /\ caught' = exc
    ELSE /\ solver_pc' = "raised"
         /\ UNCHANGED caught

\* Line 102.
SubmitQubo ==
    /\ solver_pc = "submit"
    /\ \E o \in SubmitOutcomes :
          IF o = "ok"
          THEN solver_pc' = "wait" /\ UNCHANGED caught
          ELSE Handle(o)
    /\ UNCHANGED <<terms, size, entry, response, solution, energy,
                   seed_energy, flip_i, improved>>
    /\ UnchangedExcept("solver")

\* Line 105, failing.
WaitForJobFails ==
    /\ solver_pc = "wait"
    /\ \E o \in WaitFailures : Handle(o)
    /\ UNCHANGED <<terms, size, entry, response, solution, energy,
                   seed_energy, flip_i, improved>>
    /\ UnchangedExcept("solver")

\* Line 105, returning the job's output.
WaitForJobReturns ==
    /\ solver_pc = "wait"
    /\ \E r \in Responses(size) : response' = r
    /\ solver_pc' = "parse"
    /\ UNCHANGED <<terms, size, entry, caught, solution, energy,
                   seed_energy, flip_i, improved>>
    /\ UnchangedExcept("solver")

\* Lines 108-114.
ParseResult ==
    /\ solver_pc = "parse"
    /\ IF ParseException(response) = "none"
       THEN /\ solution' = ParseSolution(response, size)
            /\ solver_pc' = "returned_quantum"
            /\ UNCHANGED caught
       ELSE /\ Handle(ParseException(response))
            /\ UNCHANGED solution
    /\ UNCHANGED <<terms, size, entry, response, energy, seed_energy,
                   flip_i, improved>>
    /\ UnchangedExcept("solver")

\* Lines 122-126: the random seed and its energy.
ClassicalSeed ==
    /\ solver_pc = "seed"
    /\ \E seed \in BitVectors(size) :
          /\ solution' = seed
          /\ energy' = _calculate_energy(seed, terms)
          /\ seed_energy' = _calculate_energy(seed, terms)
    /\ improved' = FALSE
    /\ flip_i' = 0
    /\ solver_pc' = "sweep"
    /\ UNCHANGED <<terms, size, entry, caught, response>>
    /\ UnchangedExcept("solver")

\* Lines 129-139: one pass of the for loop's body.
TryFlip ==
    /\ solver_pc = "sweep"
    /\ flip_i < size
    /\ LET new_energy == _calculate_energy(Flipped(solution, flip_i), terms)
       IN IF AcceptsFlip(new_energy, energy)
          THEN /\ solution' = Flipped(solution, flip_i)
               /\ energy' = new_energy
               /\ improved' = TRUE
          ELSE UNCHANGED <<solution, energy, improved>>
    /\ flip_i' = flip_i + 1
    /\ UNCHANGED <<terms, size, solver_pc, entry, caught, response, seed_energy>>
    /\ UnchangedExcept("solver")

\* Lines 127-128 and 141: the while test after a full pass.
SweepEnd ==
    /\ solver_pc = "sweep"
    /\ flip_i = size
    /\ IF improved
       THEN /\ improved' = FALSE
            /\ flip_i' = 0
            /\ UNCHANGED solver_pc
       ELSE /\ solver_pc' = "returned_classical"
            /\ UNCHANGED <<improved, flip_i>>
    /\ UNCHANGED <<terms, size, entry, caught, response, solution, energy,
                   seed_energy>>
    /\ UnchangedExcept("solver")

InitSolver == SolverInit /\ IdleExcept("solver")

NextSolver ==
    \/ SubmitQubo
    \/ WaitForJobFails
    \/ WaitForJobReturns
    \/ ParseResult
    \/ ClassicalSeed
    \/ TryFlip
    \/ SweepEnd

SpecSolver == InitSolver /\ [][NextSolver]_vars

\* _solve_classical called directly.  It is sequential code: a call that
\* can take a step takes it.
InitClassical == InitSolver /\ entry = "_solve_classical"

NextClassical == ClassicalSeed \/ TryFlip \/ SweepEnd

SpecClassical == InitClassical /\ [][NextClassical]_vars /\ WF_vars(NextClassical)

(***************************************************************************)
(* Properties of the solvers.                                              *)
(***************************************************************************)
InClassical == solver_pc \in {"sweep", "returned_classical"}

\* C4: the classical solver's working energy is the energy of its working
\* solution, never exceeds the energy of the seed, and never increases
\* from one step of the greedy search to the next.
C4_EnergyNeverIncreases ==
    /\ [](InClassical =>
            /\ energy = _calculate_energy(solution, terms)
            /\ energy <= seed_energy)
    /\ [][(InClassical /\ InClassical') => energy' <= energy]_vars

C4_Witness ==
    /\ solver_pc = "returned_classical"
    /\ entry = "_solve_classical"
    /\ energy < seed_energy

\* C27: _solve_classical terminates for every term list and size, although
\* its while loop has no iteration bound, and no single bit flip of the
\* solution it returns has a strictly lower energy.
C27_ClassicalTerminatesAtFixedPoint ==
    /\ (solver_pc = "seed") ~> (solver_pc = "returned_classical")
    /\ [](solver_pc = "returned_classical" =>
             \A i \in 0..(size - 1) :
                 ~(_calculate_energy(Flipped(solution, i), terms)
                       < _calculate_energy(solution, terms)))

\* A returned solution of full size that the search improved.
C27_Witness ==
    /\ solver_pc = "returned_classical"
    /\ size = MaxSize
    /\ energy < seed_energy

\* C5: _solve_quantum never lets an exception out; after any failure of the
\* external solver (submission, wait, unreadable result) what it returns
\* is the classical solver's result, a 0/1 vector of length size.
C5_QuantumNeverRaises ==
    /\ solver_pc # "raised"
    /\ (caught # "none" /\ solver_pc \in {"returned_quantum", "returned_classical"}) =>
          /\ solver_pc = "returned_classical"
          /\ solution \in BitVectors(size)
          /\ energy <= seed_energy

C5_Witness ==
    /\ entry = "_solve_quantum"
    /\ caught = "TimeoutError"
    /\ solver_pc = "returned_classical"

\* C6: for both success shapes of the response, _solve_quantum returns the
\* bit vector the response encodes.
C6_BothShapesDecoded ==
    (solver_pc = "returned_quantum"
        /\ response.shape \in {"solution_list", "configuration"}) =>
        solution = response.bits

(***************************************************************************)
(* QuantumReasoningState (quantum_reasoning.py:33-143).                    *)
(*                                                                         *)
(* Amplitudes are kept exactly: amplitude = sign * sqrt(num / den) with a  *)
(* denominator shared by all paths, so |amplitude|^2 = num / den is a      *)
(* fraction and normalisation (division by sqrt(total)) replaces den by    *)
(* the sum of the nums.  Multiplying a zero amplitude by                   *)
(* 1.0 / np.sqrt(0) = inf gives NaN, and NaN stays NaN in every later      *)
(* sum and product.  Hamiltonians are the real matrices with at most one   *)
(* non-zero (integer) entry per row: permutations, projections, scalings   *)
(* and the zero matrix, for which hamiltonian @ state_vector stays in      *)
(* this form.                                                              *)
(***************************************************************************)
RECURSIVE GCD(_, _)
GCD(a, b) == IF b = 0 THEN a ELSE GCD(b, a % b)

RECURSIVE SumOver(_, _)
SumOver(f, S) ==
    IF S = {} THEN 0
    ELSE LET x == CHOOSE y \in S : TRUE
         IN f[x] + SumOver(f, S \ {x})

RECURSIVE GCDOver(_, _)
GCDOver(f, S) ==
    IF S = {} THEN 0
    ELSE LET x == CHOOSE y \in S : TRUE
         IN GCD(f[x], GCDOver(f, S \ {x}))

Nums(st) == [p \in DOMAIN st.amps |-> st.amps[p].num]

\* sum(abs(amp) ** 2 for amp in amplitudes.values()), times den.
TotalNum(st) == SumOver(Nums(st), DOMAIN st.amps)

\* The same state with its fractions in lowest terms.
Reduced(st) ==
    LET g == GCD(st.den, GCDOver(Nums(st), DOMAIN st.amps))
    IN [st EXCEPT !.den = st.den \div g,
                  !.amps = [p \in DOMAIN st.amps |->
                               [st.amps[p] EXCEPT !.num = st.amps[p].num \div g]]]

\* Every amplitude NaN.
AllNaN(st) ==
    [amps |-> [p \in DOMAIN st.amps |-> [sign |-> 0, num |-> 0]],
     den |-> 1, nan |-> TRUE]

\* np.isclose(total, 1.0, atol=1e-10), numpy's rtol being 1e-5:
\* |total - 1| <= 1e-10 + 1e-5, with total = n / d, that is
\* x * 10^10 <= 100001 * d for x = |n - d|.  As 10^10 = 100001 * 99999 + 1
\* this is 100001 * (d - 99999 * x) >= x, which for 0 < x <= 20000 is
\* d > 99999 * x (and needs d above 2 * 10^9 for a larger x).
IsCloseToOne(n, d) ==
    LET x == Abs(n - d)
    IN x = 0 \/ (x <= 20000 /\ d > 99999 * x)

\* A check that never renormalises.
NeverRenormalised(st) == st

\* _validate_state
_validate_state(st) ==
    IF DOMAIN st.amps = {} THEN st
    ELSE IF st.nan THEN AllNaN(st)
    ELSE IF IsCloseToOne(TotalNum(st), st.den) THEN st
    ELSE IF TotalNum(st) = 0 THEN AllNaN(st)
    ELSE Reduced([st EXCEPT !.den = TotalNum(st)])

\* add_decision_path(path, amplitude); amplitude = a.sign * sqrt(a.num / a.den).
add_decision_path(st, path, a) ==
    _validate_state(Reduced(
        [amps |-> [p \in DOMAIN st.amps \cup {path} |->
                      IF p = path
                      THEN [sign |-> a.sign, num |-> a.num * st.den]
                      ELSE [st.amps[p] EXCEPT !.num = st.amps[p].num * a.den]],
         den |-> st.den * a.den,
         nan |-> st.nan]))

\* The paths in the order of their ids (ids are 1, 2, ...): position k
\* holds the k-th smallest id.
RECURSIVE SortedIds(_)
SortedIds(S) ==
    IF S = {} THEN <<>>
    ELSE LET m == CHOOSE x \in S : \A y \in S : x <= y
         IN <<m>> \o SortedIds(S \ {m})

\* evolve(hamiltonian) for a square matrix H given by its rows
\* [col, coef]: row i has the entry coef in column col and zeros
\* elsewhere.  A matrix of another size than the state is embedded in an
\* identity of size max(len(paths), rows) and the state vector is padded
\* with zeros; only the first len(paths) entries of the product are kept.
evolve(st, H) ==
    IF DOMAIN st.amps = {} THEN st
    ELSE LET paths == SortedIds(DOMAIN st.amps)
             m == Len(paths)
             Entry(k) == IF k <= m THEN st.amps[paths[k]]
                         ELSE [sign |-> 0, num |-> 0]
             NewAmp(i) ==
                 IF i <= Len(H)
                 THEN [sign |-> (IF H[i].coef > 0 THEN 1
                                 ELSE IF H[i].coef < 0 THEN -1 ELSE 0)
                                * Entry(H[i].col).sign,
                       num |-> H[i].coef * H[i].coef * Entry(H[i].col).num]
                 ELSE Entry(i)
             Position(p) == CHOOSE k \in 1..m : paths[k] = p
         IN _validate_state(
                IF st.nan THEN AllNaN(st)
                ELSE Reduced([st EXCEPT !.amps =
                        [p \in DOMAIN st.amps |->
                            LET a == NewAmp(Position(p))
                            IN IF a.num = 0 THEN [sign |-> 0, num |-> 0] ELSE a]]))

\* get_probabilities: |amplitude|^2 of every path as <<num, den>>.
get_probabilities(st) ==
    [p \in DOMAIN st.amps |-> <<st.amps[p].num, st.den>>]

\* The amplitudes callers pass: 0, 1, -1, sqrt(1/2) and 1.0000005
\* (squared: 1.000001).
Amplitudes ==
    {[sign |-> 0, num |-> 0, den |-> 1],
     [sign |-> 1, num |-> 1, den |-> 1],
     [sign |-> -1, num |-> 1, den |-> 1],
     [sign |-> 1, num |-> 1, den |-> 2],
     [sign |-> 1, num |-> 1000001, den |-> 1000000]}

HamiltonianSizes == {1, 2}

HamiltonianRows(k) ==
    {[col |-> 1, coef |-> 0]}
    \cup [col : 1..k, coef : {1, -1, 2}]

Hamiltonians == UNION {[1..k -> HamiltonianRows(k)] : k \in HamiltonianSizes}

ReasonInit ==
    /\ rstate = EmptyState
    /\ history_len = 0
    /\ rcalls = 0

\* The numbers of a state stay below Magnitude times a small factor.
InRange(st) == st.den <= Magnitude

AddDecisionPath ==
    /\ rcalls < MaxCalls
    /\ \E path \in 1..MaxPaths, a \in Amplitudes :
          /\ rstate.den <= Magnitude \div a.den
          /\ rstate' = add_decision_path(rstate, path, a)
    /\ rcalls' = rcalls + 1
    /\ UNCHANGED history_len
    /\ UnchangedExcept("reason")

Evolve ==
    /\ rcalls < MaxCalls
    /\ InRange(rstate)
    /\ \E H \in Hamiltonians : rstate' = evolve(rstate, H)
    /\ history_len' = IF DOMAIN rstate.amps = {} THEN history_len
                      ELSE history_len + 1
    /\ rcalls' = rcalls + 1
    /\ UnchangedExcept("reason")

InitReason == ReasonInit /\ IdleExcept("reason")

NextReason == AddDecisionPath \/ Evolve

SpecReason == InitReason /\ [][NextReason]_vars

(***************************************************************************)
(* Properties of the reasoning state.                                      *)
(***************************************************************************)
\* |n / d - 1| <= 1e-9, that is x * 10^9 <= d for x = |n - d|.
WithinClaimedTolerance(n, d) ==
    LET x == Abs(n - d)
    IN x = 0 \/ (x <= 2 /\ d >= x * 1000000000)

\* C7: after any sequence of add_decision_path and evolve calls that leaves
\* the state non-empty, the squared amplitudes sum to 1 within 1e-9.
C7_Normalised ==
    DOMAIN rstate.amps # {} =>
        /\ ~rstate.nan
        /\ WithinClaimedTolerance(TotalNum(rstate), rstate.den)

(***************************************************************************)
(* HierarchicalQUBO (hierarchical_qubo.py).  A level is a record           *)
(* [matrix, variables, constraints, weight]: matrix a function on          *)
(* (0..n-1) x (0..n-1), variables the sequence of names, constraints a     *)
(* function from some names to their target value.  The inter-level        *)
(* weight is 0.5, so the combined matrix and the energies are kept in      *)
(* halves (every entry and energy is twice the code's): comparisons of     *)
(* energies are unchanged.                                                 *)
(***************************************************************************)
\* optimization_parameters (lines 19-24); inter_level_weight is 1/2.
constraint_weight == 10

max_iterations == 1000

VarName(k) == CASE k = 0 -> "x0" [] k = 1 -> "x1" [] k = 2 -> "x2" [] OTHER -> "x3"

\* Line 50: the default variable names.
DefaultVariables(n) == [k \in 1..n |-> VarName(k - 1)]

LevelSize(level) == Len(level.variables)

\* The matrices of the levels: s on the diagonal and off it, s = 1 or -1.
UniformMatrix(n, s) == [ab \in (0..(n - 1)) \X (0..(n - 1)) |-> s]

\* At most one constrained variable per level, target 0 or 1.
ConstraintDicts(n) ==
    {<<>>} \cup {[name \in {VarName(k)} |-> t] : k \in 0..(n - 1), t \in {0, 1}}

LevelsOfSize(n) ==
    {[matrix |-> UniformMatrix(n, s), variables |-> DefaultVariables(n),
      constraints |-> c, weight |-> w]
     : s \in {-1, 1}, c \in ConstraintDicts(n), w \in {1, 2}}

\* _calculate_offsets
_calculate_offsets(lv) ==
    [idx \in 0..(Len(lv) - 1) |->
        SumSeq([k \in 1..idx |-> LevelSize(lv[k])])]

CombinedSize(lv) == SumSeq([k \in 1..Len(lv) |-> LevelSize(lv[k])])

\* The level a combined index falls in, and its index inside the level.
LevelOf(lv, p) ==
    CHOOSE idx \in 0..(Len(lv) - 1) :
        /\ _calculate_offsets(lv)[idx] <= p
        /\ p < _calculate_offsets(lv)[idx] + LevelSize(lv[idx + 1])

VarIdxOf(lv, p) == p - _calculate_offsets(lv)[LevelOf(lv, p)]

\* Lines 105-112: the level blocks, in halves.
LevelBlocks(lv) ==
    [ab \in (0..(CombinedSize(lv) - 1)) \X (0..(CombinedSize(lv) - 1)) |->
        IF LevelOf(lv, ab[1]) = LevelOf(lv, ab[2])
        THEN LET level == lv[LevelOf(lv, ab[1]) + 1]
             IN 2 * level.matrix[<<VarIdxOf(lv, ab[1]), VarIdxOf(lv, ab[2])>>]
                  * level.weight
        ELSE 0]

\* _add_connection_terms: every entry between the two levels is SET to
\* weight * inter_level_weight (in halves: weight), both ways.
_add_connection_terms(m, lv, conn) ==
    [ab \in DOMAIN m |->
        IF \/ (LevelOf(lv, ab[1]) = conn[1] /\ LevelOf(lv, ab[2]) = conn[2])
           \/ (LevelOf(lv, ab[1]) = conn[2] /\ LevelOf(lv, ab[2]) = conn[1])
        THEN conn[3]
        ELSE m[ab]]

RECURSIVE AddConnections(_, _, _)
AddConnections(m, lv, conns) ==
    IF conns = <<>> THEN m
    ELSE AddConnections(_add_connection_terms(m, lv, Head(conns)), lv, Tail(conns))

\* _add_constraint_terms: + 2 * constraint_weight - 2 * constraint_weight *
\* target on the diagonal of every constrained variable (in halves).
_add_constraint_terms(m, lv) ==
    [ab \in DOMAIN m |->
        LET level == lv[LevelOf(lv, ab[1]) + 1]
            name == level.variables[VarIdxOf(lv, ab[1]) + 1]
        IN IF ab[1] = ab[2] /\ name \in DOMAIN level.constraints
           THEN m[ab] + 2 * (2 * constraint_weight
                             - 2 * constraint_weight * level.constraints[name])
           ELSE m[ab]]

\* Lines 103-126.
CombinedMatrix(lv, conns) ==
    _add_constraint_terms(AddConnections(LevelBlocks(lv), lv, conns), lv)

\* solution @ matrix @ solution, solution a sequence (index p + 1).
HEnergy(sol, m) ==
    SumSeq([a \in 1..Len(sol) |->
        SumSeq([b \in 1..Len(sol) |-> sol[a] * m[<<a - 1, b - 1>>] * sol[b]])])

\* A search that flips every variable.
FlipsEveryVariable(level, name) == TRUE

\* Line 214: only unconstrained variables are flipped.
Flippable(level, name) == name \notin DOMAIN level.constraints

NameAt(lv, p) == lv[LevelOf(lv, p) + 1].variables[VarIdxOf(lv, p) + 1]

\* Lines 197-204: the targets for constrained variables, random bits for
\* the others.
InitialSolutions(lv) ==
    {sol \in [1..CombinedSize(lv) -> {0, 1}] :
        \A p \in 0..(CombinedSize(lv) - 1) :
            LET level == lv[LevelOf(lv, p) + 1]
            IN NameAt(lv, p) \in DOMAIN level.constraints
                  => sol[p + 1] = level.constraints[NameAt(lv, p)]}

\* Lines 132-138: results["level_<idx>"].
LevelSolution(idx) ==
    SubSeq(h_solution, _calculate_offsets(levels)[idx] + 1,
           _calculate_offsets(levels)[idx] + LevelSize(levels[idx + 1]))

\* The connection lists add_connection (lines 69-91) builds for n levels:
\* none, one from the only level to itself, one between the two levels
\* (weight 2), or two between the two levels (weights 2 and -2).
ConnectionLists(n) ==
    IF n = 1 THEN {<<>>, <<(<<0, 0, 2>>)>>}
    ELSE {<<>>, <<(<<0, 1, 2>>)>>, <<(<<0, 1, 2>>), (<<1, 0, -2>>)>>}

\* The configurations: one or two levels of the same size and a connection
\* list.
HierInit ==
    /\ \E n \in 1..MaxVars :
          levels \in [1..1 -> LevelsOfSize(n)] \cup [1..2 -> LevelsOfSize(n)]
    /\ connections \in ConnectionLists(Len(levels))
    /\ combined_matrix = <<>>
    /\ h_solution = <<>>
    /\ h_energy = 0
    /\ h_pc = "build"
    /\ h_pos = 0
    /\ h_improved = FALSE
    /\ h_iter = 0

\* optimize(), lines 103-126.
BuildCombined ==
    /\ h_pc = "build"
    /\ combined_matrix' = CombinedMatrix(levels, connections)
    /\ h_pc' = "init"
    /\ UNCHANGED <<levels, connections, h_solution, h_energy, h_pos,
                   h_improved, h_iter>>
    /\ UnchangedExcept("hier")

\* _solve_qubo, lines 194-206.
InitialiseSolution ==
    /\ h_pc = "init"
    /\ \E sol \in InitialSolutions(levels) :
          /\ h_solution' = sol
          /\ h_energy' = HEnergy(sol, combined_matrix)
    /\ h_pc' = "sweep"
    /\ h_pos' = 0
    /\ h_improved' = FALSE
    /\ h_iter' = 0
    /\ UNCHANGED <<levels, connections, combined_matrix>>
    /\ UnchangedExcept("hier")

\* _solve_qubo, lines 213-224: one variable of the pass.
HTryFlip ==
    /\ h_pc = "sweep"
    /\ h_pos < CombinedSize(levels)
    /\ LET level == levels[LevelOf(levels, h_pos) + 1]
           flipped == [h_solution EXCEPT ![h_pos + 1] = 1 - h_solution[h_pos + 1]]
           new_energy == HEnergy(flipped, combined_matrix)
       IN IF Flippable(level, NameAt(levels, h_pos)) /\ new_energy < h_energy
          THEN /\ h_solution' = flipped
               /\ h_energy' = new_energy
               /\ h_improved' = TRUE
          ELSE UNCHANGED <<h_solution, h_energy, h_improved>>
    /\ h_pos' = h_pos + 1
    /\ UNCHANGED <<levels, connections, combined_matrix, h_pc, h_iter>>
    /\ UnchangedExcept("hier")

\* _solve_qubo, lines 209-210 and 226-229: the end of a pass.
HSweepEnd ==
    /\ h_pc = "sweep"
    /\ h_pos = CombinedSize(levels)
    /\ IF h_improved /\ h_iter + 1 < max_iterations
       THEN /\ h_iter' = h_iter + 1
            /\ h_improved' = FALSE
            /\ h_pos' = 0
            /\ UNCHANGED h_pc
       ELSE /\ h_pc' = "returned"
            /\ UNCHANGED <<h_iter, h_improved, h_pos>>
    /\ UNCHANGED <<levels, connections, combined_matrix, h_solution, h_energy>>
    /\ UnchangedExcept("hier")

InitHier == HierInit /\ IdleExcept("hier")

NextHier == BuildCombined \/ InitialiseSolution \/ HTryFlip \/ HSweepEnd

SpecHier == InitHier /\ [][NextHier]_vars

(***************************************************************************)
(* Properties of the hierarchical composer.                                *)
(***************************************************************************)
\* The block a connection contributes: weight * inter_level_weight (in
\* halves: weight) wherever a row of one level meets a column of the other.
CouplingBlock(lv, conn, ab) ==
    IF \/ (LevelOf(lv, ab[1]) = conn[1] /\ LevelOf(lv, ab[2]) = conn[2])
       \/ (LevelOf(lv, ab[1]) = conn[2] /\ LevelOf(lv, ab[2]) = conn[1])
    THEN conn[3]
    ELSE 0

\* The three parts added up.
SumOfParts(lv, conns) ==
    [ab \in (0..(CombinedSize(lv) - 1)) \X (0..(CombinedSize(lv) - 1)) |->
        LevelBlocks(lv)[ab]
          + SumSeq([k \in 1..Len(conns) |-> CouplingBlock(lv, conns[k], ab)])
          + (_add_constraint_terms(LevelBlocks(lv), lv)[ab] - LevelBlocks(lv)[ab])]

\* C26: the combined matrix optimize() builds is the sum of the weighted
\* level blocks, of one coupling block per connection and of the constraint
\* penalties; no connection replaces what another part contributed.
C26_CombinedIsSumOfParts ==
    h_pc # "build" => combined_matrix = SumOfParts(levels, connections)

\* C8: while the local search runs and in what optimize() returns, every
\* variable named in its level's constraints has exactly its target value
\* in that level's vector.
C8_ConstraintsKept ==
    h_pc \in {"sweep", "returned"} =>
        \A idx \in 0..(Len(levels) - 1) :
            \A v \in 1..LevelSize(levels[idx + 1]) :
                levels[idx + 1].variables[v] \in DOMAIN levels[idx + 1].constraints
                => LevelSolution(idx)[v]
                      = levels[idx + 1].constraints[levels[idx + 1].variables[v]]

\* A returned solution in which flipping a constrained variable would
\* lower the energy, and an unconstrained variable was moved by the search.
C8_Witness ==
    /\ h_pc = "returned"
    /\ h_iter > 0
    /\ \E p \in 0..(CombinedSize(levels) - 1) :
          /\ ~Flippable(levels[LevelOf(levels, p) + 1], NameAt(levels, p))
          /\ HEnergy([h_solution EXCEPT ![p + 1] = 1 - h_solution[p + 1]],
                     combined_matrix) < h_energy

(***************************************************************************)
(* EnhancedQUBOScheduler.build_hierarchical_qubo (enhanced_scheduler.py):  *)
(* one worker thread per cluster runs _build_and_solve_cluster_qubo on the *)
(* SAME scheduler object, so build_qubo_with_reasoning's                   *)
(* self.reasoning_weights is one dictionary for all workers.  A worker's   *)
(* reasoning state, its state_probs and its term list are its own.  Each   *)
(* action is one statement of a worker; the threads interleave between     *)
(* statements.  Weights are exact fractions <<num, den>>; a term is kept   *)
(* as the factor 1 + 2 * reasoning_factor its base weight is multiplied    *)
(* by.                                                                     *)
(***************************************************************************)
Workers == {1, 2}

\* Fractions.
Frac(n, d) ==
    LET g == GCD(Abs(n), Abs(d))
    IN IF g = 0 THEN <<0, 1>> ELSE <<n \div g, d \div g>>

FracAdd(a, b) == Frac(a[1] * b[2] + b[1] * a[2], a[2] * b[2])

FracDiv(a, b) == Frac(a[1] * b[2], a[2] * b[1])

FracMul(a, b) == Frac(a[1] * b[1], a[2] * b[2])

Zero == <<0, 1>>

One == <<1, 1>>

\* The clusters: one to MaxClusterTasks tasks, each depending on at most
\* one other task of its cluster.
ClusterTaskLists ==
    {ts \in UNION {[1..n -> [id : {IdOf(m) : m \in 1..n},
                             dependencies : {d \in SUBSET {IdOf(m) : m \in 1..n} :
                                                 Cardinality(d) <= 1}]]
                   : n \in 1..MaxClusterTasks} :
        \A k \in 1..Len(ts) : /\ ts[k].id = IdOf(k)
                              /\ ts[k].id \notin ts[k].dependencies}

\* _add_cluster_decision_paths, lines 100-107: position pos (0-based) is
\* valid for task number i when every dependency found in the cluster has
\* an index below pos.
ValidPosition(ts, i, pos) ==
    \A dep \in ts[i].dependencies :
        \A j \in 1..Len(ts) : ts[j].id = dep => (j - 1) < pos

\* The (task, position) pairs that get a path, in the order they are
\* added; the path of pair number k has id k.
RECURSIVE PathPairsFrom(_, _, _)
PathPairsFrom(ts, i, pos) ==
    IF i > Len(ts) THEN <<>>
    ELSE IF pos >= Len(ts) THEN PathPairsFrom(ts, i + 1, 0)
    ELSE (IF ValidPosition(ts, i, pos) THEN <<(<<i, pos>>)>> ELSE <<>>)
         \o PathPairsFrom(ts, i, pos + 1)

PathPairs(ts) == PathPairsFrom(ts, 1, 0)

\* _add_cluster_decision_paths: every path is added with the amplitude
\* sqrt(1 / len(tasks)), the state renormalising after each.
RECURSIVE ClusterStateAfter(_, _)
ClusterStateAfter(ts, k) ==
    IF k = 0 THEN EmptyState
    ELSE add_decision_path(ClusterStateAfter(ts, k - 1), k,
                           [sign |-> 1, num |-> 1, den |-> Len(ts)])

ClusterState(ts) == ClusterStateAfter(ts, Len(PathPairs(ts)))

\* state_probs.items() of line 40, in insertion order: the scheduling
\* position of the path's only action "schedule_<pos>" and its probability.
StateProbs(ts) ==
    [k \in 1..Len(PathPairs(ts)) |->
        [pos |-> PathPairs(ts)[k][2],
         prob |-> Frac(get_probabilities(ClusterState(ts))[k][1],
                       get_probabilities(ClusterState(ts))[k][2])]]

\* self.reasoning_weights.get(action, 0.0); the dictionary is a function
\* from positions (the action "schedule_<pos>") to fractions.
WeightGet(rw, pos) == IF pos \in DOMAIN rw THEN rw[pos] ELSE Zero

\* self.reasoning_weights[action] = value
WeightSet(rw, pos, value) ==
    [q \in DOMAIN rw \cup {pos} |-> IF q = pos THEN value ELSE rw[q]]

\* sum(self.reasoning_weights.values())
RECURSIVE FracSumOver(_, _)
FracSumOver(rw, S) ==
    IF S = {} THEN Zero
    ELSE LET x == CHOOSE y \in S : TRUE
         IN FracAdd(rw[x], FracSumOver(rw, S \ {x}))

WeightTotal(rw) == FracSumOver(rw, DOMAIN rw)

\* Lines 49-52: {k: v / total_weight ...} when total_weight > 0.
Normalised(rw, total) ==
    IF total[1] > 0
    THEN [q \in DOMAIN rw |-> FracDiv(rw[q], total)]
    ELSE rw

\* _calculate_reasoning_factor(i, j)
_calculate_reasoning_factor(rw, i, j) ==
    IF i = j THEN WeightGet(rw, i)
    ELSE FracMul(<<-1, 2>>, FracMul(WeightGet(rw, i), WeightGet(rw, j)))

\* _calculate_term_weight(i, j) / _calculate_base_weight(i, j):
\* 1.0 + 2.0 * reasoning_factor.
TermFactor(rw, i, j) ==
    FracAdd(One, FracMul(<<2, 1>>, _calculate_reasoning_factor(rw, i, j)))

\* build_qubo_with_reasoning run by one thread alone on the cluster.
RECURSIVE AccumulatedAlone(_, _)
AccumulatedAlone(probs, k) ==
    IF k = 0 THEN <<>>
    ELSE LET rw == AccumulatedAlone(probs, k - 1)
         IN WeightSet(rw, probs[k].pos,
                      FracAdd(WeightGet(rw, probs[k].pos), probs[k].prob))

WeightsAlone(ts) ==
    LET rw == AccumulatedAlone(StateProbs(ts), Len(StateProbs(ts)))
    IN Normalised(rw, WeightTotal(rw))

TermsAlone(ts) ==
    [k \in 1..Len(TermPairs(Len(ts))) |->
        [i |-> TermPairs(Len(ts))[k][1], j |-> TermPairs(Len(ts))[k][2],
         factor |-> TermFactor(WeightsAlone(ts), TermPairs(Len(ts))[k][1],
                               TermPairs(Len(ts))[k][2])]]

WorkersInit ==
    /\ cluster_tasks \in [Workers -> ClusterTaskLists]
    /\ reasoning_weights = <<>>
    /\ w_pc = [w \in Workers |-> "start"]
    /\ w_probs = [w \in Workers |-> <<>>]
    /\ w_k = [w \in Workers |-> 0]
    /\ w_read = [w \in Workers |-> Zero]
    /\ w_total = [w \in Workers |-> Zero]
    /\ w_terms = [w \in Workers |-> <<>>]

\* enhanced_scheduler.py:71-74 and scheduler.py:34-37: the worker's own
\* state and state_probs, and the clear() of the shared dictionary.
ClearWeights(w) ==
    /\ w_pc[w] = "start"
    /\ w_probs' = [w_probs EXCEPT ![w] = StateProbs(cluster_tasks[w])]
    /\ reasoning_weights' = <<>>
    /\ w_k' = [w_k EXCEPT ![w] = 1]
    /\ w_pc' = [w_pc EXCEPT ![w] = "accumulate"]
    /\ UNCHANGED <<cluster_tasks, w_read, w_total, w_terms>>
    /\ UnchangedExcept("workers")

\* scheduler.py:45, right-hand side: reasoning_weights.get(action, 0.0).
ReadWeight(w) ==
    /\ w_pc[w] = "accumulate"
    /\ w_k[w] <= Len(w_probs[w])
    /\ w_read' = [w_read EXCEPT ![w] = WeightGet(reasoning_weights, w_probs[w][w_k[w]].pos)]
    /\ w_pc' = [w_pc EXCEPT ![w] = "store"]
    /\ UNCHANGED <<cluster_tasks, reasoning_weights, w_probs, w_k, w_total, w_terms>>
    /\ UnchangedExcept("workers")

\* scheduler.py:45, the store of the sum.
StoreWeight(w) ==
    /\ w_pc[w] = "store"
    /\ reasoning_weights' =
          WeightSet(reasoning_weights, w_probs[w][w_k[w]].pos,
                    FracAdd(w_read[w], w_probs[w][w_k[w]].prob))
    /\ w_k' = [w_k EXCEPT ![w] = w_k[w] + 1]
    /\ w_pc' = [w_pc EXCEPT ![w] = "accumulate"]
    /\ UNCHANGED <<cluster_tasks, w_probs, w_read, w_total, w_terms>>
    /\ UnchangedExcept("workers")

\* scheduler.py:48.
SumWeights(w) ==
    /\ w_pc[w] = "accumulate"
    /\ w_k[w] > Len(w_probs[w])
    /\ w_total' = [w_total EXCEPT ![w] = WeightTotal(reasoning_weights)]
    /\ w_pc' = [w_pc EXCEPT ![w] = "normalise"]
    /\ UNCHANGED <<cluster_tasks, reasoning_weights, w_probs, w_k, w_read, w_terms>>
    /\ UnchangedExcept("workers")

\* scheduler.py:49-52.
NormaliseWeights(w) ==
    /\ w_pc[w] = "normalise"
    /\ reasoning_weights' = Normalised(reasoning_weights, w_total[w])
    /\ w_k' = [w_k EXCEPT ![w] = 1]
    /\ w_pc' = [w_pc EXCEPT ![w] = "terms"]
    /\ UNCHANGED <<cluster_tasks, w_probs, w_read, w_total, w_terms>>
    /\ UnchangedExcept("workers")

\* scheduler.py:55-57: one term.
AppendTerm(w) ==
    /\ w_pc[w] = "terms"
    /\ LET pairs == TermPairs(Len(cluster_tasks[w]))
       IN /\ w_k[w] <= Len(pairs)
          /\ w_terms' = [w_terms EXCEPT ![w] = Append(@,
                [i |-> pairs[w_k[w]][1], j |-> pairs[w_k[w]][2],
                 factor |-> TermFactor(reasoning_weights, pairs[w_k[w]][1],
                                       pairs[w_k[w]][2])])]
          /\ w_pc' = [w_pc EXCEPT ![w] =
                IF w_k[w] = Len(pairs) THEN "built" ELSE "terms"]
    /\ w_k' = [w_k EXCEPT ![w] = w_k[w] + 1]
    /\ UNCHANGED <<cluster_tasks, reasoning_weights, w_probs, w_read, w_total>>
    /\ UnchangedExcept("workers")

InitWorkers == WorkersInit /\ IdleExcept("workers")

NextWorkers ==
    \E w \in Workers :
        \/ ClearWeights(w)
        \/ ReadWeight(w)
        \/ StoreWeight(w)
        \/ SumWeights(w)
        \/ NormaliseWeights(w)
        \/ AppendTerm(w)

SpecWorkers == InitWorkers /\ [][NextWorkers]_vars

(***************************************************************************)
(* Properties of the worker pool.                                          *)
(***************************************************************************)
\* C9: under every interleaving, the term weights a worker has built for
\* its cluster are those build_qubo_with_reasoning gives for that cluster
\* when run alone.
C9_WorkersIndependent ==
    \A w \in Workers :
        w_pc[w] = "built" => w_terms[w] = TermsAlone(cluster_tasks[w])

(***************************************************************************)
(* QuantumReACT (quantum_reasoning.py:145-262).  Learned weights are fixed *)
(* point numbers in units of 1/WeightUnit, every product rounded down.     *)
(* make_decision leaves the reasoning state collapsed on the path of the   *)
(* action it returns; `decided` is that action.                            *)
(***************************************************************************)
WeightUnit == 100 * 100

\* learning_rate = 0.2 (line 152), in tenths.
learning_rate_tenths == 2

\* Line 253: max(new_weight, 0.1).
MinWeight == WeightUnit \div 10

Actions == {"a", "b"}

\* Lines 162-164: weights for actions seen for the first time.
WithNewActions(weights, available) ==
    [x \in DOMAIN weights \cup available |->
        IF x \in DOMAIN weights THEN weights[x] ELSE WeightUnit]

\* Lines 246-250: the adjusted weight of the acted-on action.
AdjustedWeight(weights, action, success) ==
    LET current_weight == IF action \in DOMAIN weights THEN weights[action]
                          ELSE WeightUnit
        adjustment_tenths == IF success THEN 10 + learning_rate_tenths
                             ELSE 10 - learning_rate_tenths
    IN (current_weight * adjustment_tenths) \div 10

\* Line 253.
Floored(w) == Max2(w, MinWeight)

\* Lines 256-262: scale_factor = len(weights) / total_weight.
Rescaled(weights) ==
    LET total_weight == SumOver(weights, DOMAIN weights)
        n == Cardinality(DOMAIN weights)
    IN IF total_weight > 0
       THEN [x \in DOMAIN weights |->
                (weights[x] * n * WeightUnit) \div total_weight]
       ELSE weights

\* reflect_and_adjust, lines 244-262.
Adjusted(weights, action, success) ==
    Rescaled([x \in DOMAIN weights \cup {action} |->
                 IF x = action
                 THEN Floored(AdjustedWeight(weights, action, success))
                 ELSE weights[x]])

ReactInit ==
    /\ decision_weights = <<>>
    /\ outcomes_len = 0
    /\ decided = "none"

\* make_decision with a non-empty list of available actions.
MakeDecision ==
    /\ \E available \in (SUBSET Actions) \ {{}} :
          /\ decision_weights' = WithNewActions(decision_weights, available)
          /\ \E chosen \in available \cup ({decided} \ {"none"}) :
                decided' = chosen
    /\ UNCHANGED outcomes_len
    /\ UnchangedExcept("react")

\* reflect_and_adjust with feedback naming an action.
ReflectAndAdjust ==
    /\ outcomes_len < MaxOutcomes
    /\ \E action \in Actions, success \in BOOLEAN :
          decision_weights' = Adjusted(decision_weights, action, success)
    /\ outcomes_len' = outcomes_len + 1
    /\ UNCHANGED decided
    /\ UnchangedExcept("react")

\* reflect_and_adjust with feedback that names no action.
ReflectWithoutAction ==
    /\ outcomes_len < MaxOutcomes
    /\ outcomes_len' = outcomes_len + 1
    /\ UNCHANGED <<decision_weights, decided>>
    /\ UnchangedExcept("react")

InitReact == ReactInit /\ IdleExcept("react")

NextReact == MakeDecision \/ ReflectAndAdjust \/ ReflectWithoutAction

SpecReact == InitReact /\ [][NextReact]_vars

(***************************************************************************)
(* Properties of the learner.                                              *)
(***************************************************************************)
\* C10: after any sequence of make_decision and reflect_and_adjust calls
\* every learned weight is at least 0.1.
C10_WeightsAtLeastMinimum ==
    \A x \in DOMAIN decision_weights : decision_weights[x] >= MinWeight

(***************************************************************************)
(* QuantumReACT.make_decision on a QuantumReasoningState                   *)
(* (quantum_reasoning.py:102-130, 153-262).  The caller owns one learner   *)
(* and one reasoning state and calls add_decision_path, measure,           *)
(* make_decision and reflect_and_adjust in any order.  Learned weights are *)
(* exact fractions here.  Path ids are uuid4 strings: a new path gets any  *)
(* id not in use, so its place in the sorted order is arbitrary.           *)
(*   d_actions : path id -> the path's actions[0]                          *)
(*   d_op      : the last call                                             *)
(*   d_ret     : what the last call returned or that it raised             *)
(***************************************************************************)
PathIds == 1..MaxPathIds

\* The available_actions lists of a context.
ActionLists == {<<>>, <<"a">>, <<"b">>, <<"a", "b">>, <<"b", "a">>}

ElementsOf(seq) == {seq[k] : k \in 1..Len(seq)}

FracLess(a, b) == a[1] * b[2] < b[1] * a[2]

\* context.get('uncertainty', 0.5) in halves: theta = pi * u / 2.
Uncertainties == {0, 1, 2}

\* Lines 162-164: self.decision_weights[action] = 1.0 for a new action.
InitialisedWeights(weights, available) ==
    [x \in DOMAIN weights \cup ElementsOf(available) |->
        IF x \in DOMAIN weights THEN weights[x] ELSE One]

\* Lines 156-159: an empty list returns before the weights are touched.
GeneratedWeights(weights, available) ==
    IF available = <<>> THEN weights
    ELSE InitialisedWeights(weights, available)

\* Lines 166-170: adjusted_prob of the k-th available action.
AdjustedProb(weights, available, k) ==
    LET total_weight ==
            FracSumOver([i \in 1..Len(available) |-> weights[available[i]]],
                        1..Len(available))
    IN FracDiv(weights[available[k]], total_weight)

\* A make_decision that goes on without paths.
NeverNoPaths(paths) == FALSE

\* Line 213: if not paths.
NoPaths(paths) == paths = <<>>

\* The ids uuid4 may give to n new paths.
FreshIds(st, n) ==
    {ids \in [1..n -> PathIds \ DOMAIN st.amps] :
        \A i, j \in 1..n : i # j => ids[i] # ids[j]}

\* Lines 217-218: the state after the first k paths are added with the
\* amplitude sqrt(path.probability).
RECURSIVE AddedPaths(_, _, _, _, _)
AddedPaths(st, weights, available, ids, k) ==
    IF k = 0 THEN st
    ELSE LET prob == AdjustedProb(weights, available, k)
         IN add_decision_path(AddedPaths(st, weights, available, ids, k - 1),
                              ids[k],
                              [sign |-> 1, num |-> prob[1], den |-> prob[2]])

\* _create_evolution_hamiltonian for uncertainty 0, 0.5 and 1, where the
\* rotation has the entries cos(theta), sin(theta) in {0, 1, -1} (up to
\* 1e-16); rows as [col, coef].
_create_evolution_hamiltonian(n_paths, u) ==
    IF n_paths = 0 THEN <<>>
    ELSE IF n_paths = 1 THEN <<[col |-> 1, coef |-> 1]>>
    ELSE LET base_hamiltonian ==
                 IF u = 0 THEN <<[col |-> 1, coef |-> 1], [col |-> 2, coef |-> 1]>>
                 ELSE IF u = 1
                 THEN <<[col |-> 2, coef |-> -1], [col |-> 1, coef |-> 1]>>
                 ELSE <<[col |-> 1, coef |-> -1], [col |-> 2, coef |-> -1]>>
         IN [i \in 1..n_paths |->
                IF i <= 2 THEN base_hamiltonian[i] ELSE [col |-> i, coef |-> 1]]

\* measure, lines 104-105 and 123: an empty state raises ValueError, and
\* so does np.random.choice when the probabilities are NaN.
MeasureRaises(st) == DOMAIN st.amps = {} \/ st.nan

\* Line 123: np.random.choice picks an index of non-zero probability.
Selectable(st) == {p \in DOMAIN st.amps : st.amps[p].num > 0}

\* Lines 108-118: the probability measure gives to path p.
MeasureProbability(st, p) == Frac(st.amps[p].num, TotalNum(st))

\* Lines 127-128: self.amplitudes = {selected_path: 1.0}.
Collapsed(p) ==
    [amps |-> [q \in {p} |-> [sign |-> 1, num |-> 1]],
     den |-> 1, nan |-> FALSE]

\* reflect_and_adjust, lines 246-262, on fractions.
reflect_and_adjust(weights, action, success) ==
    LET current_weight == IF action \in DOMAIN weights THEN weights[action]
                          ELSE One
        adjustment == IF success THEN <<6, 5>> ELSE <<4, 5>>
        new_weight == FracMul(current_weight, adjustment)
        floored == IF FracLess(new_weight, <<1, 10>>) THEN <<1, 10>>
                   ELSE new_weight
        stored == [x \in DOMAIN weights \cup {action} |->
                      IF x = action THEN floored ELSE weights[x]]
        total_weight == FracSumOver(stored, DOMAIN stored)
        scale_factor == FracDiv(<<Cardinality(DOMAIN stored), 1>>, total_weight)
    IN [x \in DOMAIN stored |-> FracMul(stored[x], scale_factor)]

\* The amplitudes a caller passes to add_decision_path: 0, 1, sqrt(1/2).
CallerAmplitudes ==
    {[sign |-> 0, num |-> 0, den |-> 1],
     [sign |-> 1, num |-> 1, den |-> 1],
     [sign |-> 1, num |-> 1, den |-> 2]}

DecideInit ==
    /\ d_state = EmptyState
    /\ d_history_len = 0
    /\ d_actions = <<>>
    /\ d_weights = <<>>
    /\ d_outcomes_len = 0
    /\ d_op = "none"
    /\ d_ret = NoReturn
    /\ d_calls = 0

\* state.add_decision_path(path, amplitude) by the caller.
CallerAddsPath ==
    /\ d_calls < MaxDecideCalls
    /\ \E path \in PathIds, action \in Actions, a \in CallerAmplitudes :
          /\ path \in DOMAIN d_actions => d_actions[path] = action
          /\ d_state' = add_decision_path(d_state, path, a)
          /\ d_actions' = [p \in DOMAIN d_actions \cup {path} |->
                              IF p = path THEN action ELSE d_actions[p]]
    /\ d_op' = "add"
    /\ d_ret' = NoReturn
    /\ d_calls' = d_calls + 1
    /\ UNCHANGED <<d_history_len, d_weights, d_outcomes_len>>
    /\ UnchangedExcept("decide")

\* state.measure() by the caller.
CallerMeasures ==
    /\ d_calls < MaxDecideCalls
    /\ IF MeasureRaises(d_state)
       THEN /\ d_ret' = [NoReturn EXCEPT !.raised = TRUE]
            /\ UNCHANGED <<d_state, d_actions>>
       ELSE \E p \in Selectable(d_state) :
               /\ d_state' = Collapsed(p)
               /\ d_actions' = [q \in {p} |-> d_actions[p]]
               /\ d_ret' = [NoReturn EXCEPT
                               !.path = p,
                               !.action = d_actions[p],
                               !.prob = MeasureProbability(d_state, p)]
    /\ d_op' = "measure"
    /\ d_calls' = d_calls + 1
    /\ UNCHANGED <<d_history_len, d_weights, d_outcomes_len>>
    /\ UnchangedExcept("decide")

\* The action of every path after make_decision added its paths.
PathActions(actions, available, ids) ==
    [p \in DOMAIN actions \cup ElementsOf(ids) |->
        IF p \in ElementsOf(ids)
        THEN available[CHOOSE k \in 1..Len(ids) : ids[k] = p]
        ELSE actions[p]]

\* Lines 221-223: the state after the evolution, if there is one.
Evolved(added, hamiltonian) ==
    IF Len(hamiltonian) > 0 THEN evolve(added, hamiltonian) ELSE added

\* Lines 229-230: probabilities.get(selected_path, 0.0) of the state that
\* measure left behind.
Confidence(st, p) ==
    IF p \in DOMAIN st.amps
    THEN Frac(get_probabilities(st)[p][1], get_probabilities(st)[p][2])
    ELSE Zero

\* make_decision(context, state), lines 208-237.
CallerDecides ==
    /\ d_calls < MaxDecideCalls
    /\ \E available \in ActionLists, u \in Uncertainties :
        \E weights \in {GeneratedWeights(d_weights, available)} :
          IF NoPaths(available)
          THEN /\ d_ret' = [NoReturn EXCEPT !.raised = TRUE,
                                            !.available = available]
               /\ d_weights' = weights
               /\ UNCHANGED <<d_state, d_actions, d_history_len>>
          ELSE \E ids \in FreshIds(d_state, Len(available)) :
               \E added \in {AddedPaths(d_state, weights, available, ids,
                                        Len(available))} :
               \E hamiltonian \in
                      {_create_evolution_hamiltonian(Len(available), u)} :
               \E evolved \in {Evolved(added, hamiltonian)} :
               \E acts \in {PathActions(d_actions, available, ids)} :
                  /\ d_weights' = weights
                  /\ d_history_len' =
                        IF Len(hamiltonian) > 0 /\ DOMAIN added.amps # {}
                        THEN d_history_len + 1 ELSE d_history_len
                  /\ IF MeasureRaises(evolved)
                     THEN /\ d_state' = evolved
                          /\ d_actions' = acts
                          /\ d_ret' = [NoReturn EXCEPT
                                          !.raised = TRUE,
                                          !.available = available]
                     ELSE \E p \in Selectable(evolved) :
                             /\ d_state' = Collapsed(p)
                             /\ d_actions' = [q \in {p} |-> acts[p]]
                             /\ d_ret' =
                                  [raised |-> FALSE,
                                   action |-> acts[p],
                                   confidence |-> Confidence(Collapsed(p), p),
                                   prob |-> MeasureProbability(evolved, p),
                                   available |-> available,
                                   path |-> p]
    /\ d_op' = "decide"
    /\ d_calls' = d_calls + 1
    /\ UNCHANGED d_outcomes_len
    /\ UnchangedExcept("decide")

\* reflect_and_adjust(outcome, state) with feedback naming an action.
CallerReflects ==
    /\ d_calls < MaxDecideCalls
    /\ \E action \in Actions, success \in BOOLEAN :
          d_weights' = reflect_and_adjust(d_weights, action, success)
    /\ d_outcomes_len' = d_outcomes_len + 1
    /\ d_op' = "reflect"
    /\ d_ret' = NoReturn
    /\ d_calls' = d_calls + 1
    /\ UNCHANGED <<d_state, d_actions, d_history_len>>
    /\ UnchangedExcept("decide")

InitDecide == DecideInit /\ IdleExcept("decide")

NextDecide == CallerAddsPath \/ CallerMeasures \/ CallerDecides \/ CallerReflects

SpecDecide == InitDecide /\ [][NextDecide]_vars

(***************************************************************************)
(* Properties of make_decision and measure.                                *)
(***************************************************************************)
\* C11: the action of the Decision that make_decision returns is one of
\* the available_actions of the context of that call, whatever paths the
\* state held before the call.
C11_ActionIsAvailable ==
    (d_op = "decide" /\ ~d_ret.raised)
        => d_ret.action \in ElementsOf(d_ret.available)

\* C12: the confidence of the returned Decision is the probability that
\* the evolved state gave, when it was measured, to the selected path.
C12_ConfidenceIsProbability ==
    (d_op = "decide" /\ ~d_ret.raised) => d_ret.confidence = d_ret.prob

\* C19: measure on a non-empty state returns a path the state held with
\* non-zero probability and leaves exactly that path with amplitude 1.0,
\* the history as it was; on an empty state it raises and leaves the
\* amplitudes and the history as they were.
C19_MeasureCollapses ==
    [][d_op' = "measure" =>
          IF DOMAIN d_state.amps # {}
          THEN /\ ~d_ret'.raised
               /\ d_ret'.path \in Selectable(d_state)
               /\ d_state' = Collapsed(d_ret'.path)
               /\ UNCHANGED d_history_len
          ELSE /\ d_ret'.raised
               /\ UNCHANGED <<d_state, d_history_len>>]_vars

\* C20: make_decision with an empty available_actions list raises and
\* leaves the state's amplitudes and history and the learner's
\* decision_weights and outcomes as they were.
C20_EmptyActionsChangeNothing ==
    [][(d_op' = "decide" /\ d_ret'.available = <<>>) =>
          /\ d_ret'.raised
          /\ UNCHANGED <<d_state, d_actions, d_history_len, d_weights,
                         d_outcomes_len>>]_vars

\* An empty list handed to a learner that has weights and outcomes, with a
\* state that holds a path and a history.
C20_Witness ==
    /\ d_op = "decide"
    /\ d_ret.available = <<>>
    /\ d_ret.raised
    /\ DOMAIN d_state.amps # {}
    /\ d_history_len > 0
    /\ DOMAIN d_weights # {}
    /\ d_outcomes_len > 0

(***************************************************************************)
(* The QUBO term builder build(tasks, agents, horizon, makespan_weight)    *)
(* for one task.  A variable is a triple (task, agent, window); a term is  *)
(* [i, j, weight] with i = j for a linear term.  The makespan weight is    *)
(* given in quarters and every weight and energy is in quarters too.       *)
(***************************************************************************)
Quarters == 2 + 2

AgentIds == {1, 2}

\* Window granularity = GCD of all task durations (minimum 1).
Granularity(durations) == Max2(1, GCDOver(durations, DOMAIN durations))

\* The windows of a task: aligned to the granularity, between
\* max(0, release_time) and min(horizon, deadline ?? horizon).
Windows(task, g, hor) ==
    LET lo == Max2(0, task.release_time)
        hi == IF task.deadline = -1 THEN hor ELSE Min2(hor, task.deadline)
    IN {[start |-> s, end |-> s + task.duration] :
           s \in {t \in lo..hi : t % g = 0 /\ t + task.duration <= hi}}

\* The variable mapping: index -> (agent, window), agents first.
RECURSIVE WindowSeq(_)
WindowSeq(ws) ==
    IF ws = {} THEN <<>>
    ELSE LET w == CHOOSE v \in ws : \A u \in ws : v.start <= u.start
         IN <<w>> \o WindowSeq(ws \ {w})

VariableMapping(task, hor) ==
    LET ws == WindowSeq(Windows(task, Granularity(<<task.duration>>), hor))
        n == Len(ws)
    IN [k \in 1..(2 * n) |->
           [agent |-> ((k - 1) \div n) + 1, window |-> ws[((k - 1) % n) + 1]]]

Overlap(w1, w2) == w1.start < w2.end /\ w2.start < w1.end

\* Exactly-one-assignment: -1 per variable, +2 per unordered pair.
ExactlyOneTerms(mapping) ==
    {[i |-> k, j |-> k, weight |-> (0 - 1) * Quarters] : k \in DOMAIN mapping}
    \cup {[i |-> p[1], j |-> p[2], weight |-> 2 * Quarters] :
             p \in {q \in (DOMAIN mapping) \X (DOMAIN mapping) : q[1] < q[2]}}

\* Agent-overlap: +2 per pair of variables of one agent whose windows
\* overlap.
OverlapTerms(mapping) ==
    {[i |-> p[1], j |-> p[2], weight |-> 2 * Quarters] :
        p \in {q \in (DOMAIN mapping) \X (DOMAIN mapping) :
                  /\ q[1] < q[2]
                  /\ mapping[q[1]].agent = mapping[q[2]].agent
                  /\ Overlap(mapping[q[1]].window, mapping[q[2]].window)}}

\* Makespan objective: weight * window.end per variable.
MakespanTerms(mapping, weight4) ==
    {[i |-> k, j |-> k, weight |-> weight4 * mapping[k].window.end] :
        k \in DOMAIN mapping}

\* The term list is a bag: a pair penalised by two rules has two terms.
build(mapping, weight4) ==
    [one |-> ExactlyOneTerms(mapping),
     overlap |-> OverlapTerms(mapping),
     makespan |-> MakespanTerms(mapping, weight4)]

RECURSIVE TermSum(_, _)
TermSum(ts, x) ==
    IF ts = {} THEN 0
    ELSE LET t == CHOOSE u \in ts : TRUE
         IN (IF x[t.i] = 1 /\ x[t.j] = 1 THEN t.weight ELSE 0)
            + TermSum(ts \ {t}, x)

\* The energy of an assignment: the sum of the terms whose variables are 1.
QuboEnergy(built, x) ==
    TermSum(built.one, x) + TermSum(built.overlap, x)
    + TermSum(built.makespan, x)

Assignments(n) == [1..n -> {0, 1}]

Ones(x) == Cardinality({k \in DOMAIN x : x[k] = 1})

BuildInit ==
    /\ b_task \in [duration : 1..MaxDuration, release_time : {0},
                   deadline : {-1}]
    /\ b_horizon \in {2 * b_task.duration, 2 * b_task.duration + 1}
    /\ Len(VariableMapping(b_task, b_horizon)) = 4
    /\ b_weight \in 0..MaxMakespanQuarters
    /\ b_terms = <<>>
    /\ b_x = <<>>
    /\ b_energy = 0
    /\ b_pc = "start"

\* build(tasks, agents, horizon, makespan_weight)
Build ==
    /\ b_pc = "start"
    /\ b_terms' = build(VariableMapping(b_task, b_horizon), b_weight)
    /\ b_pc' = "built"
    /\ UNCHANGED <<b_task, b_horizon, b_weight, b_x, b_energy>>
    /\ UnchangedExcept("build")

\* The energy of one of the 16 assignments.
Evaluate ==
    /\ b_pc \in {"built", "evaluated"}
    /\ \E x \in Assignments(4) :
          /\ b_x' = x
          /\ b_energy' = QuboEnergy(b_terms, x)
    /\ b_pc' = "evaluated"
    /\ UNCHANGED <<b_task, b_horizon, b_weight, b_terms>>
    /\ UnchangedExcept("build")

InitBuild == BuildInit /\ IdleExcept("build")

NextBuild == Build \/ Evaluate

SpecBuild == InitBuild /\ [][NextBuild]_vars

\* C13: for one task with 2 agents and 2 windows, an assignment of minimum
\* energy among the 16 sets exactly one variable, whatever the non-negative
\* makespan weight.
C13_MinimumSelectsExactlyOne ==
    (b_pc = "evaluated"
     /\ \A y \in Assignments(4) : b_energy <= QuboEnergy(b_terms, y))
        => Ones(b_x) = 1

(***************************************************************************)
(* QAOAOptimizer.optimize (qaoa_optimizer.py:28-101, 103-223) on           *)
(* Hamiltonians of 0 and 1 qubits with integer entries.  Angles are on the *)
(* grid of multiples of pi/2, where every phase and rotation is exact: an  *)
(* amplitude is [re, im] in units of 1/sqrt(len(state)), an energy is in   *)
(* units of 1/len(state).  _update_parameters moves the angles by a        *)
(* finite-difference gradient; on the grid it is any grid point.           *)
(***************************************************************************)
\* circuit_parameters['p_steps'], line 21.
p_steps == 2

\* gamma ~ uniform(0, 2 pi), beta ~ uniform(0, pi), in units of pi/2.
GammaGrid == 0..3

BetaGrid == 0..1

\* Symmetric integer Hamiltonians of size 1 and 2, as sequences of rows.
ProblemHamiltonians ==
    {<<<<a>>>> : a \in {0, 1}}
    \cup {<<<<a, b>>, <<b, c>>>> : a \in {-1, 0, 1}, b \in {-1, 0, 1},
                                   c \in {-1, 0, 1}}

\* _create_uniform_superposition
_create_uniform_superposition(n) == [k \in 1..n |-> [re |-> 1, im |-> 0]]

\* a * (-i)^m
TimesMinusIPower(a, m) ==
    LET r == m % 4
    IN IF r = 0 THEN a
       ELSE IF r = 1 THEN [re |-> a.im, im |-> 0 - a.re]
       ELSE IF r = 2 THEN [re |-> 0 - a.re, im |-> 0 - a.im]
       ELSE [re |-> 0 - a.im, im |-> a.re]

\* _apply_phase_separator: state * exp(-1j * gamma * diag(hamiltonian)).
_apply_phase_separator(state, hamiltonian, gamma) ==
    [k \in DOMAIN state |->
        TimesMinusIPower(state[k], gamma * hamiltonian[k][k])]

\* int(np.log2(n)) for a power of two.
RECURSIVE Log2(_)
Log2(n) == IF n <= 1 THEN 0 ELSE 1 + Log2(n \div 2)

RECURSIVE Pow2(_)
Pow2(q) == IF q = 0 THEN 1 ELSE 2 * Pow2(q - 1)

\* The index paired with index k (1-based) on qubit axis q: idx0 and
\* idx1 = idx0 + 2**q of lines 145-148.
Partner(k, q) ==
    IF ((k - 1) \div Pow2(q)) % 2 = 0 THEN k + Pow2(q) ELSE k - Pow2(q)

\* Lines 150-151 for every pair of axis q: the 2x2 rotation of `state`.
\* With beta a multiple of pi/2 the rotation is (-i)^beta times the
\* identity (beta even) or times the swap of the pair (beta odd).
RotatedAxis(state, beta, q) ==
    [k \in DOMAIN state |->
        TimesMinusIPower(IF beta % 2 = 0 THEN state[k] ELSE state[Partner(k, q)],
                         beta)]

\* new_state after the passes for the qubits 0..q-1 (lines 137-151): it
\* starts as zeros; every index lies in one pair of each axis, so every
\* pass writes every entry of new_state, from the input `state`, over what
\* the pass before wrote.
MixedUpTo(state, beta, q) ==
    IF q = 0 THEN [k \in DOMAIN state |-> [re |-> 0, im |-> 0]]
    ELSE RotatedAxis(state, beta, q - 1)

\* _apply_mixing_operator: with no qubit new_state stays zero.
_apply_mixing_operator(state, beta) ==
    MixedUpTo(state, beta, Log2(Len(state)))

\* _apply_qaoa_circuit: p_steps layers.
RECURSIVE Layers(_, _, _, _, _)
Layers(state, hamiltonian, gamma, beta, p) ==
    IF p = 0 THEN state
    ELSE _apply_mixing_operator(
             _apply_phase_separator(
                 Layers(state, hamiltonian, gamma, beta, p - 1),
                 hamiltonian, gamma[p]),
             beta[p])

_apply_qaoa_circuit(state, hamiltonian, gamma, beta) ==
    Layers(state, hamiltonian, gamma, beta, Len(gamma))

\* Re(state.conj() @ hamiltonian @ state), times len(state).
RECURSIVE PairSum(_, _, _)
PairSum(state, hamiltonian, pairs) ==
    IF pairs = {} THEN 0
    ELSE LET q == CHOOSE r \in pairs : TRUE
         IN hamiltonian[q[1]][q[2]]
              * (state[q[1]].re * state[q[2]].re
                 + state[q[1]].im * state[q[2]].im)
            + PairSum(state, hamiltonian, pairs \ {q})

ExpectationEnergy(state, hamiltonian) ==
    PairSum(state, hamiltonian, (DOMAIN state) \X (DOMAIN state))

\* _measure_state: np.argmax takes the first index of maximal probability.
_measure_state(state) ==
    CHOOSE k \in DOMAIN state :
        \A l \in DOMAIN state :
            LET pk == state[k].re * state[k].re + state[k].im * state[k].im
                pl == state[l].re * state[l].re + state[l].im * state[l].im
            IN pl < pk \/ (pl = pk /\ k <= l)

\* Line 93: success = len(energies) < max_iterations.
Success(energies, limit, broke) == Len(energies) < limit

NoResult ==
    [solution |-> <<>>, energy |-> 0, success |-> FALSE, iterations |-> 0,
     history |-> <<>>]

QaoaInit ==
    /\ q_hamiltonian \in ProblemHamiltonians
    /\ q_max_iterations \in 1..MaxIterations
    /\ q_gamma \in [1..p_steps -> GammaGrid]
    /\ q_beta \in [1..p_steps -> BetaGrid]
    /\ q_state = _create_uniform_superposition(Len(q_hamiltonian))
    /\ q_energies = <<>>
    /\ q_iteration = 0
    /\ q_converged = FALSE
    /\ q_result = NoResult
    /\ q_pc = "loop"

\* One pass of the loop of lines 54-80.
Iterate ==
    /\ q_pc = "loop"
    /\ q_iteration < q_max_iterations
    /\ \E evolved_state \in {_apply_qaoa_circuit(q_state, q_hamiltonian,
                                                  q_gamma, q_beta)} :
       \E e \in {ExpectationEnergy(evolved_state, q_hamiltonian)} :
          /\ q_energies' = Append(q_energies, e)
          /\ IF q_iteration > 0 /\ e = q_energies[Len(q_energies)]
             THEN /\ q_converged' = TRUE
                  /\ q_pc' = "measure"
                  /\ UNCHANGED <<q_state, q_gamma, q_beta, q_iteration>>
             ELSE /\ q_gamma' \in [1..p_steps -> GammaGrid]
                  /\ q_beta' \in [1..p_steps -> BetaGrid]
                  /\ q_state' = evolved_state
                  /\ q_iteration' = q_iteration + 1
                  /\ q_pc' = IF q_iteration + 1 < q_max_iterations
                             THEN "loop" ELSE "measure"
                  /\ UNCHANGED q_converged
    /\ UNCHANGED <<q_hamiltonian, q_max_iterations, q_result>>
    /\ UnchangedExcept("qaoa")

\* Lines 82-101: the measurement and the result.
Measure ==
    /\ q_pc = "measure"
    /\ q_result' =
          [solution |-> [k \in DOMAIN q_state |->
                            IF k = _measure_state(q_state) THEN 1 ELSE 0],
           energy |-> q_energies[Len(q_energies)],
           success |-> Success(q_energies, q_max_iterations, q_converged),
           iterations |-> Len(q_energies),
           history |-> q_energies]
    /\ q_pc' = "done"
    /\ UNCHANGED <<q_hamiltonian, q_max_iterations, q_gamma, q_beta, q_state,
                   q_energies, q_iteration, q_converged>>
    /\ UnchangedExcept("qaoa")

InitQaoa == QaoaInit /\ IdleExcept("qaoa")

NextQaoa == Iterate \/ Measure

SpecQaoa == InitQaoa /\ [][NextQaoa]_vars

(***************************************************************************)
(* Properties of the optimizer.                                            *)
(***************************************************************************)
\* solution^T H solution for a 0/1 vector.
SolutionEnergy(sol, hamiltonian) ==
    PairSum([k \in DOMAIN sol |-> [re |-> sol[k], im |-> 0]], hamiltonian,
            (DOMAIN sol) \X (DOMAIN sol))

\* C14: the returned solution is a one-hot vector and its energy under the
\* Hamiltonian is at most the expectation value of the Hamiltonian in the
\* initial uniform superposition.
C14_SolutionNoWorseThanUniform ==
    q_pc = "done" =>
        /\ Cardinality({k \in DOMAIN q_result.solution :
                           q_result.solution[k] = 1}) = 1
        /\ \A k \in DOMAIN q_result.solution : q_result.solution[k] \in {0, 1}
        /\ Len(q_hamiltonian) * SolutionEnergy(q_result.solution, q_hamiltonian)
              <= ExpectationEnergy(
                     _create_uniform_superposition(Len(q_hamiltonian)),
                     q_hamiltonian)

\* C15: success is true exactly when the loop stopped on convergence, the
\* last permitted iteration included; iterations is len(history) and never
\* exceeds max_iterations.
C15_SuccessIffConverged ==
    q_pc = "done" =>
        /\ q_result.success = q_converged
        /\ q_result.iterations = Len(q_result.history)
        /\ q_result.iterations <= q_max_iterations

(***************************************************************************)
(* optimize called with an initial_state (lines 29, 42-43, 52): the        *)
(* uniform superposition is replaced by a normalised basis state, written   *)
(* in the same units of 1/sqrt(len(state)).                                 *)
(***************************************************************************)
GivenStates(n) ==
    IF n = 1
    THEN {<<[re |-> 0, im |-> 1]>>}
    ELSE {[k \in 1..n |-> IF k = j THEN [re |-> 1, im |-> 1]
                                   ELSE [re |-> 0, im |-> 0]] : j \in 1..n}

QaoaInitGiven ==
    /\ q_hamiltonian \in ProblemHamiltonians
    /\ q_max_iterations \in 1..MaxIterations
    /\ q_gamma \in [1..p_steps -> GammaGrid]
    /\ q_beta \in [1..p_steps -> BetaGrid]
    /\ q_state \in GivenStates(Len(q_hamiltonian))
    /\ q_energies = <<>>
    /\ q_iteration = 0
    /\ q_converged = FALSE
    /\ q_result = NoResult
    /\ q_pc = "loop"

InitQaoaGiven == QaoaInitGiven /\ IdleExcept("qaoa")

SpecQaoaGiven == InitQaoaGiven /\ [][NextQaoa]_vars

\* The evolved_state of the last pass of the loop: after the break of line
\* 69 it is the circuit applied to current_state with the parameters of that
\* pass, otherwise line 80 has stored it in current_state.
LastEvolved ==
    IF q_converged
    THEN _apply_qaoa_circuit(q_state, q_hamiltonian, q_gamma, q_beta)
    ELSE q_state

\* C29: the returned solution is the measurement of the evolved state whose
\* energy is returned as result.energy (the last entry of the history).
C29_SolutionMeasuredFromReportedState ==
    q_pc = "done" =>
        /\ q_result.energy = ExpectationEnergy(LastEvolved, q_hamiltonian)
        /\ q_result.solution =
              [k \in DOMAIN LastEvolved |->
                  IF k = _measure_state(LastEvolved) THEN 1 ELSE 0]

(***************************************************************************)
(* EnhancedQUBOScheduler._assign_tasks_to_clusters and                     *)
(* optimize_cluster_assignments (enhanced_scheduler.py:127-198) on two     *)
(* scheduler instances.  A task is [id, required_resources], a cluster     *)
(* [id, available_resources] with current_load 0 and capacity 1; both come *)
(* as sequences in the order of the list and of the dictionary.            *)
(***************************************************************************)
Schedulers == {1, 2}

ResourceKinds == {"cpu", "gpu"}

CallTaskLists ==
    {<<[id |-> "t1", required_resources |-> {r}]>> : r \in ResourceKinds}
    \cup {<<[id |-> "t1", required_resources |-> {r}],
            [id |-> "t2", required_resources |-> {s}]>> :
             r \in ResourceKinds, s \in ResourceKinds}

CallClusterLists ==
    {<<[id |-> c, available_resources |-> {r}]>> :
        c \in {"c1", "c2"}, r \in ResourceKinds}
    \cup {<<[id |-> "c1", available_resources |-> {r}],
            [id |-> "c2", available_resources |-> {s}]>> :
             r \in ResourceKinds, s \in ResourceKinds}

MaxClusterSizes == {1, 2}

\* Lines 148-156: resource_match * load_factor with load_factor 1.
Affinity(task, cluster) ==
    Cardinality(task.required_resources \cap cluster.available_resources)

\* Line 161: np.argmax over the clusters, the first maximum.
BestClusterIdx(task, clusters) ==
    CHOOSE j \in 1..Len(clusters) :
        \A k \in 1..Len(clusters) :
            \/ Affinity(task, clusters[k]) < Affinity(task, clusters[j])
            \/ (Affinity(task, clusters[k]) = Affinity(task, clusters[j])
                /\ j <= k)

\* optimize_cluster_assignments: task id -> cluster id; the stored
\* assignments are replaced unless tasks or clusters are empty.
optimize_cluster_assignments(stored, ts, clusters) ==
    IF ts = <<>> \/ clusters = <<>> THEN stored
    ELSE [x \in {ts[i].id : i \in 1..Len(ts)} |->
             LET i == CHOOSE k \in 1..Len(ts) :
                          ts[k].id = x
                          /\ \A l \in 1..Len(ts) : ts[l].id = x => l <= k
             IN clusters[BestClusterIdx(ts[i], clusters)].id]

\* Lines 183-184: assignments are computed only when none are stored.
AssignmentsUsed(stored, ts, clusters) ==
    IF DOMAIN stored = {} THEN optimize_cluster_assignments(stored, ts, clusters)
    ELSE stored

\* Lines 187-196: the tasks of each cluster, in list order, up to
\* max_cluster_size; the error is "KeyError" when an assignment names a
\* cluster that is not among the clusters of the call.
RECURSIVE GroupedUpTo(_, _, _, _, _)
GroupedUpTo(assignments, ts, clusters, max_cluster_size, n) ==
    IF n = 0
    THEN [error |-> "none",
          groups |-> [c \in {clusters[j].id : j \in 1..Len(clusters)} |-> <<>>]]
    ELSE LET before == GroupedUpTo(assignments, ts, clusters,
                                   max_cluster_size, n - 1)
             task == ts[n]
         IN IF before.error # "none" THEN before
            ELSE IF task.id \notin DOMAIN assignments THEN before
            ELSE IF assignments[task.id] \notin DOMAIN before.groups
            THEN [error |-> "KeyError", groups |-> <<>>]
            ELSE IF Len(before.groups[assignments[task.id]]) < max_cluster_size
            THEN [before EXCEPT !.groups[assignments[task.id]] =
                                    Append(@, task.id)]
            ELSE before

_assign_tasks_to_clusters(assignments, ts, clusters, max_cluster_size) ==
    GroupedUpTo(assignments, ts, clusters, max_cluster_size, Len(ts))

AssignInit ==
    /\ cluster_assignments = [s \in Schedulers |-> <<>>]
    /\ a_grouping = [s \in Schedulers |-> [error |-> "none", groups |-> <<>>]]
    /\ a_prior = 0
    /\ a_pc = "serving"

\* One scheduler serves a call of its own.
ServeCall(s) ==
    /\ a_pc = "serving"
    /\ a_prior < MaxPriorCalls
    /\ \E ts \in CallTaskLists, clusters \in CallClusterLists,
          max_cluster_size \in MaxClusterSizes :
        \E used \in {AssignmentsUsed(cluster_assignments[s], ts, clusters)} :
          /\ cluster_assignments' = [cluster_assignments EXCEPT ![s] = used]
          /\ a_grouping' = [a_grouping EXCEPT ![s] =
                _assign_tasks_to_clusters(used, ts, clusters, max_cluster_size)]
    /\ a_prior' = a_prior + 1
    /\ UNCHANGED a_pc
    /\ UnchangedExcept("assign")

\* Both schedulers are given the same call.
ServeSameCall ==
    /\ a_pc = "serving"
    /\ \E ts \in CallTaskLists, clusters \in CallClusterLists,
          max_cluster_size \in MaxClusterSizes :
        \E used \in {[s \in Schedulers |->
                        AssignmentsUsed(cluster_assignments[s], ts, clusters)]} :
          /\ cluster_assignments' = used
          /\ a_grouping' = [s \in Schedulers |->
                _assign_tasks_to_clusters(used[s], ts, clusters,
                                          max_cluster_size)]
    /\ a_pc' = "compared"
    /\ UNCHANGED a_prior
    /\ UnchangedExcept("assign")

InitAssign == AssignInit /\ IdleExcept("assign")

NextAssign == (\E s \in Schedulers : ServeCall(s)) \/ ServeSameCall

SpecAssign == InitAssign /\ [][NextAssign]_vars

\* C16: two schedulers given the same call compute the same grouping of
\* tasks into clusters, whatever calls each of them served before.
C16_GroupingIsCallScoped ==
    a_pc = "compared" => a_grouping[1] = a_grouping[2]

(***************************************************************************)
(* EnhancedQUBOScheduler.build_hierarchical_qubo, lines 37-61: the thread  *)
(* pool.  The main thread submits one worker per non-empty cluster and     *)
(* then collects the futures in the order of submission; the pool runs up  *)
(* to max_parallel_jobs workers at once.  A task is [iterable]: whether    *)
(* its 'dependencies' can be iterated (line 103 raises TypeError when      *)
(* not).  A worker also fails when a sibling changes the shared            *)
(* reasoning_weights dictionary while it iterates over it (RuntimeError,   *)
(* scheduler.py:50-52).  Every failure is caught at line 91 and the        *)
(* worker returns None.                                                    *)
(***************************************************************************)
\* Line 14.
max_parallel_jobs == 4

PoolTaskLists ==
    UNION {[1..n -> [iterable : BOOLEAN]] : n \in 0..MaxPoolTasks}

\* Lines 83-87: Q[i][j] = 1 where solution[i] and solution[j].
SolutionMatrix(sol) ==
    [i \in DOMAIN sol |-> [j \in DOMAIN sol |->
        IF sol[i] = 1 /\ sol[j] = 1 THEN 1 ELSE 0]]

\* Line 102-103: the worker's own input makes it fail.
Malformed(ts) == \E k \in DOMAIN ts : ~ts[k].iterable

\* A collection that keeps whatever the worker returned.
CollectedWithNone(collected, status, result) ==
    Append(collected, IF status = "returned" THEN result ELSE <<"None">>)

\* Lines 55-59: a result is kept when it is not None.
Collected(collected, status, result) ==
    IF status = "returned" THEN Append(collected, result) ELSE collected

PoolInit ==
    /\ p_clusters \in UNION {[1..n -> PoolTaskLists] : n \in 1..MaxClusters}
    /\ p_status = [k \in DOMAIN p_clusters |-> "unsubmitted"]
    /\ p_result = [k \in DOMAIN p_clusters |-> <<>>]
    /\ p_futures = <<>>
    /\ p_next = 1
    /\ p_levels = <<>>
    /\ p_pc = "submit"

\* Lines 41-50: the next cluster is skipped when empty, submitted otherwise.
Submit ==
    /\ p_pc = "submit"
    /\ p_next <= Len(p_clusters)
    /\ IF p_clusters[p_next] = <<>>
       THEN UNCHANGED <<p_status, p_futures>>
       ELSE /\ p_status' = [p_status EXCEPT ![p_next] = "queued"]
            /\ p_futures' = Append(p_futures, p_next)
    /\ p_next' = p_next + 1
    /\ UNCHANGED <<p_clusters, p_result, p_levels, p_pc>>
    /\ UnchangedExcept("pool")

\* Line 53: the loop of submissions is over.
SubmitEnd ==
    /\ p_pc = "submit"
    /\ p_next > Len(p_clusters)
    /\ p_pc' = "collect"
    /\ UNCHANGED <<p_clusters, p_status, p_result, p_futures, p_next, p_levels>>
    /\ UnchangedExcept("pool")

\* The pool starts a queued worker on a free thread.
StartWorker(k) ==
    /\ p_status[k] = "queued"
    /\ Cardinality({l \in DOMAIN p_status : p_status[l] = "running"})
          < max_parallel_jobs
    /\ p_status' = [p_status EXCEPT ![k] = "running"]
    /\ UNCHANGED <<p_clusters, p_result, p_futures, p_next, p_levels, p_pc>>
    /\ UnchangedExcept("pool")

\* _build_and_solve_cluster_qubo returns its matrix (line 89).
WorkerReturns(k) ==
    /\ p_status[k] = "running"
    /\ ~Malformed(p_clusters[k])
    /\ \E sol \in [1..Len(p_clusters[k]) -> {0, 1}] :
          p_result' = [p_result EXCEPT ![k] = SolutionMatrix(sol)]
    /\ p_status' = [p_status EXCEPT ![k] = "returned"]
    /\ UNCHANGED <<p_clusters, p_futures, p_next, p_levels, p_pc>>
    /\ UnchangedExcept("pool")

\* _build_and_solve_cluster_qubo fails and returns None (lines 91-93).
WorkerFails(k) ==
    /\ p_status[k] = "running"
    /\ \/ Malformed(p_clusters[k])
       \/ \E l \in DOMAIN p_status : l # k /\ p_status[l] = "running"
    /\ p_status' = [p_status EXCEPT ![k] = "failed"]
    /\ UNCHANGED <<p_clusters, p_result, p_futures, p_next, p_levels, p_pc>>
    /\ UnchangedExcept("pool")

\* Lines 53-59: future.result() of the next future, once it is done.
Collect ==
    /\ p_pc = "collect"
    /\ p_futures # <<>>
    /\ p_status[Head(p_futures)] \in {"returned", "failed"}
    /\ p_levels' = Collected(p_levels, p_status[Head(p_futures)],
                             p_result[Head(p_futures)])
    /\ p_futures' = Tail(p_futures)
    /\ UNCHANGED <<p_clusters, p_status, p_result, p_next, p_pc>>
    /\ UnchangedExcept("pool")

\* Line 61: return self.hierarchical_levels.
ReturnLevels ==
    /\ p_pc = "collect"
    /\ p_futures = <<>>
    /\ p_pc' = "returned"
    /\ UNCHANGED <<p_clusters, p_status, p_result, p_futures, p_next, p_levels>>
    /\ UnchangedExcept("pool")

InitPool == PoolInit /\ IdleExcept("pool")

NextPool ==
    \/ Submit
    \/ SubmitEnd
    \/ \E k \in DOMAIN p_clusters : StartWorker(k)
    \/ \E k \in DOMAIN p_clusters : WorkerReturns(k)
    \/ \E k \in DOMAIN p_clusters : WorkerFails(k)
    \/ Collect
    \/ ReturnLevels

SpecPool == InitPool /\ [][NextPool]_vars

\* The matrices of the clusters whose worker returned one, in cluster order.
RECURSIVE ReturnedMatrices(_)
ReturnedMatrices(n) ==
    IF n = 0 THEN <<>>
    ELSE IF p_status[n] = "returned"
    THEN Append(ReturnedMatrices(n - 1), p_result[n])
    ELSE ReturnedMatrices(n - 1)

\* C17: when the call has returned, every non-empty cluster's worker has
\* run to its end, and the result holds exactly one matrix for every
\* cluster whose worker succeeded, whatever workers failed.
C17_FailureIsIsolated ==
    p_pc = "returned" =>
        /\ \A k \in DOMAIN p_clusters :
              p_clusters[k] # <<>> => p_status[k] \in {"returned", "failed"}
        /\ p_levels = ReturnedMatrices(Len(p_clusters))

\* A call that returned with one worker failed and another succeeded.
C17_Witness ==
    /\ p_pc = "returned"
    /\ \E k \in DOMAIN p_clusters : p_status[k] = "failed"
    /\ \E k \in DOMAIN p_clusters : p_status[k] = "returned"
    /\ p_levels # <<>>

(***************************************************************************)
(* HierarchicalQUBO.add_level and add_connection                           *)
(* (hierarchical_qubo.py:26-91) called in any order.  c_levels holds the   *)
(* shape of each level's matrix, c_connections the triples                 *)
(* (level1, level2, weight), c_ret what the last call returned.            *)
(***************************************************************************)
LevelIndices == (0 - 1)..MaxLevels

ConnectionWeights == {-1, 1, 2}

\* Lines 82-83: 0 <= idx < len(self.levels).
ValidLevelIdx(idx, n) == 0 <= idx /\ idx < n

\* A membership test that finds nothing.
NeverPresent(connection, conns) == FALSE

\* Line 87: connection in self.connections.
Present(connection, conns) ==
    \E k \in 1..Len(conns) : conns[k] = connection

\* add_connection: the new list and the returned flag.
add_connection(lvls, conns, level1_idx, level2_idx, weight) ==
    IF ~(ValidLevelIdx(level1_idx, Len(lvls))
         /\ ValidLevelIdx(level2_idx, Len(lvls)))
    THEN [connections |-> conns, returned |-> FALSE]
    ELSE IF ~Present(<<level1_idx, level2_idx, weight>>, conns)
    THEN [connections |-> Append(conns, <<level1_idx, level2_idx, weight>>),
          returned |-> TRUE]
    ELSE [connections |-> conns, returned |-> FALSE]

ConnInit ==
    /\ c_levels = <<>>
    /\ c_connections = <<>>
    /\ c_op = "none"
    /\ c_args = <<>>
    /\ c_ret = "none"
    /\ c_calls = 0

\* add_level(qubo_matrix) with the default variables, constraints and
\* weight: a matrix that is not square raises ValueError (lines 45-46).
AddLevel ==
    /\ c_calls < MaxConnectionCalls
    /\ \E rows \in 1..2, cols \in 1..2 :
          /\ c_args' = <<rows, cols>>
          /\ IF rows # cols
             THEN /\ c_ret' = "ValueError"
                  /\ UNCHANGED c_levels
             ELSE /\ Len(c_levels) < MaxLevels
                  /\ c_levels' = Append(c_levels, [rows |-> rows, cols |-> cols])
                  /\ c_ret' = "index"
    /\ c_op' = "add_level"
    /\ c_calls' = c_calls + 1
    /\ UNCHANGED c_connections
    /\ UnchangedExcept("conn")

\* add_connection(level1_idx, level2_idx, weight)
AddConnection ==
    /\ c_calls < MaxConnectionCalls
    /\ \E level1_idx \in LevelIndices, level2_idx \in LevelIndices,
          weight \in ConnectionWeights :
        \E r \in {add_connection(c_levels, c_connections, level1_idx,
                                 level2_idx, weight)} :
          /\ c_connections' = r.connections
          /\ c_ret' = IF r.returned THEN "True" ELSE "False"
          /\ c_args' = <<level1_idx, level2_idx, weight>>
    /\ c_op' = "add_connection"
    /\ c_calls' = c_calls + 1
    /\ UNCHANGED c_levels
    /\ UnchangedExcept("conn")

InitConn == ConnInit /\ IdleExcept("conn")

NextConn == AddLevel \/ AddConnection

SpecConn == InitConn /\ [][NextConn]_vars

\* C18: add_connection returns false and leaves the list alone when a
\* level index is out of range or the same triple is already in the list,
\* and otherwise appends the triple once and returns true; so the list
\* never holds a triple twice or a level index out of range.
C18_ConnectionsDeduplicated ==
    /\ [](/\ \A i, j \in 1..Len(c_connections) :
                c_connections[i] = c_connections[j] => i = j
          /\ \A i \in 1..Len(c_connections) :
                /\ c_connections[i][1] \in 0..(Len(c_levels) - 1)
                /\ c_connections[i][2] \in 0..(Len(c_levels) - 1))
    /\ [][c_op' = "add_connection" =>
            IF \/ c_args'[1] \notin 0..(Len(c_levels) - 1)
               \/ c_args'[2] \notin 0..(Len(c_levels) - 1)
               \/ \E k \in 1..Len(c_connections) : c_connections[k] = c_args'
            THEN c_ret' = "False" /\ c_connections' = c_connections
            ELSE c_ret' = "True"
                 /\ c_connections' = Append(c_connections, c_args')]_vars

\* The same triple offered a second time and refused, with both levels in
\* place.
C18_Witness ==
    /\ c_op = "add_connection"
    /\ c_ret = "False"
    /\ Len(c_levels) = 2
    /\ \E k \in 1..Len(c_connections) : c_connections[k] = c_args

(***************************************************************************)
(* QuantumOrchestrationProtocol (orchestration_protocol.py).               *)
(*                                                                         *)
(* A message id is the number of the send_message call that made it (the   *)
(* code draws a fresh uuid4).  `messages` holds the Message objects, the   *)
(* queue holds tuples (priority, timestamp, message) in the list order of  *)
(* the binary heap that queue.PriorityQueue keeps with heappush/heappop.   *)
(* datetime.now() is a clock that never runs backwards and that two calls  *)
(* may read at the same value.  delivery_history is a list that only ever  *)
(* grows; the model keeps of it, per message, the status of the first and  *)
(* of the last record with that id: get_message_status reads the first,    *)
(* and the last tells where the message ended.                             *)
(***************************************************************************)
Components == {"component1", "component2"}

\* A destination that was never registered.
Unregistered == "component3"

MessageTypes == {"test_message"}

Priorities == {0, 1}

\* Line 16: `timestamp: datetime = datetime.now()` is evaluated once, when
\* the class is created; every Message carries this value, which is earlier
\* than any reading of the clock in send_message.
DefaultTimestamp == 0

NoMessageId == 0

TerminalStatuses == {"delivered", "failed", "unroutable"}

\* Tuple comparison of two queue entries: priority, then timestamp, then
\* Message.__lt__ (lines 20-22), which is False.
ItemLess(a, b) ==
    \/ a.priority < b.priority
    \/ a.priority = b.priority /\ a.timestamp < b.timestamp

\* heapq._siftdown(heap, startpos, pos) with newitem = heap[pos]; positions
\* are 0-based as in heapq, heap[pos] is heap[pos + 1] here.
RECURSIVE SiftDown(_, _, _, _)
SiftDown(heap, startpos, pos, newitem) ==
    LET parentpos == (pos - 1) \div 2
    IN IF pos > startpos /\ ItemLess(newitem, heap[parentpos + 1])
       THEN SiftDown([heap EXCEPT ![pos + 1] = heap[parentpos + 1]],
                     startpos, parentpos, newitem)
       ELSE [heap EXCEPT ![pos + 1] = newitem]

\* heapq._siftup(heap, pos) with newitem = heap[pos].
RECURSIVE SiftUp(_, _, _)
SiftUp(heap, pos, newitem) ==
    LET endpos == Len(heap)
        leftpos == 2 * pos + 1
        rightpos == leftpos + 1
        childpos == IF /\ rightpos < endpos
                       /\ ~ItemLess(heap[leftpos + 1], heap[rightpos + 1])
                    THEN rightpos ELSE leftpos
    IN IF leftpos < endpos
       THEN SiftUp([heap EXCEPT ![pos + 1] = heap[childpos + 1]], childpos, newitem)
       ELSE SiftDown([heap EXCEPT ![pos + 1] = newitem], 0, pos, newitem)

\* PriorityQueue.put: heappush.
Put(heap, item) == SiftDown(Append(heap, item), 0, Len(heap), item)

\* PriorityQueue.get: heappop returns heap[0] ...
Got(heap) == heap[1]

\* ... and moves the last entry to the root and sifts it.
AfterGet(heap) ==
    IF Len(heap) = 1 THEN <<>>
    ELSE LET lastelt == heap[Len(heap)]
             rest == SubSeq(heap, 1, Len(heap) - 1)
         IN SiftUp([rest EXCEPT ![1] = lastelt], 0, lastelt)

\* The tuple lines 125 and 158 put back: the message's own timestamp.
PutBack(heap, m, id) ==
    Put(heap, [priority |-> m.priority, timestamp |-> m.timestamp, id |-> id])

\* delivery_history.append of a record with this id and status.
Appended(history, id, status) ==
    [history EXCEPT ![id] = IF @.first = "none"
                            THEN [first |-> status, last |-> status]
                            ELSE [@ EXCEPT !.last = status]]

\* get_message_status (lines 168-181): the status of the first record with
\* the id, None without one.
get_message_status(history, message_id) == history[message_id].first

\* The routes a component is registered with: message type -> destination.
RouteTables ==
    {rt \in [Components -> [MessageTypes -> Components \cup {Unregistered, "none"}]] :
        rt["component2"]["test_message"] \in {"none", "component1"}}

HasRoute(routes, message_type) ==
    /\ message_type \in DOMAIN routes
    /\ routes[message_type] # "none"

NoCall == [value |-> FALSE, message |-> NoMessageId, outcome |-> "none"]

\* __init__, then register_component for both components (lines 34-51) and
\* register_handler for the message type or not (lines 53-69).
ProtoInit ==
    /\ routing_table \in RouteTables
    /\ handlers \in {{}, MessageTypes}
    /\ component_status = [c \in Components |-> "active"]
    /\ message_queue = <<>>
    /\ messages = <<>>
    /\ delivery_history = <<>>
    /\ now = 1
    /\ o_op = "none"
    /\ o_ret = NoCall

\* datetime.now() moves on.
Tick ==
    /\ now < MaxClock
    /\ now' = now + 1
    /\ UNCHANGED <<routing_table, handlers, component_status, message_queue,
                   messages, delivery_history, o_op, o_ret>>
    /\ UnchangedExcept("proto")

\* send_message (lines 71-105).
SendMessage(source, destination, message_type, priority) ==
    /\ Len(messages) < MaxMessages
    /\ o_op' = "send"
    /\ IF source \notin DOMAIN routing_table \/ destination \notin DOMAIN routing_table
       THEN /\ o_ret' = NoCall
            /\ UNCHANGED <<message_queue, messages, delivery_history>>
       ELSE LET id == Len(messages) + 1
            IN /\ messages' = Append(messages,
                                 [destination |-> destination,
                                  message_type |-> message_type,
                                  timestamp |-> DefaultTimestamp,
                                  priority |-> priority,
                                  status |-> "pending"])
               /\ message_queue' = Put(message_queue,
                                       [priority |-> priority, timestamp |-> now, id |-> id])
               /\ delivery_history' = Append(delivery_history,
                                             [first |-> "none", last |-> "none"])
               /\ o_ret' = [value |-> TRUE, message |-> id, outcome |-> "sent"]
    /\ UNCHANGED <<routing_table, handlers, component_status, now>>
    /\ UnchangedExcept("proto")

\* The message leaves the queue with a final status (lines 130-131,
\* 138-143, 160-161, 163-164).
Ends(id, rest, status, value, outcome) ==
    /\ messages' = [messages EXCEPT ![id].status = status]
    /\ delivery_history' = Appended(delivery_history, id, status)
    /\ message_queue' = rest
    /\ o_ret' = [value |-> value, message |-> id, outcome |-> outcome]

\* route_message (lines 107-166); message_id = NoMessageId is the call
\* without an argument.
RouteMessage(message_id) ==
    /\ o_op' = "route"
    /\ IF message_queue = <<>>
       THEN /\ o_ret' = [value |-> FALSE, message |-> NoMessageId, outcome |-> "empty"]
            /\ UNCHANGED <<message_queue, messages, delivery_history>>
       ELSE LET id == Got(message_queue).id
                rest == AfterGet(message_queue)
                message == messages[id]
                routes == routing_table[message.destination]
            IN IF message_id # NoMessageId /\ id # message_id
               THEN /\ message_queue' = PutBack(rest, message, id)
                    /\ o_ret' = [value |-> FALSE, message |-> NoMessageId, outcome |-> "skipped"]
                    /\ UNCHANGED <<messages, delivery_history>>
               ELSE IF component_status[message.destination] # "active"
               THEN Ends(id, rest, "failed", FALSE, "inactive")
               ELSE IF message.message_type \in handlers
               THEN \/ Ends(id, rest, "delivered", TRUE, "handled")
                    \/ Ends(id, rest, "failed", TRUE, "handler_raised")
               ELSE IF ~HasRoute(routes, message.message_type)
               THEN Ends(id, rest, "delivered", TRUE, "delivered")
               ELSE IF routes[message.message_type] \notin DOMAIN routing_table
               THEN /\ messages' = [messages EXCEPT ![id].status = "unroutable"]
                    /\ delivery_history' =
                           Appended(Appended(delivery_history, id, "forwarded"),
                                    id, "unroutable")
                    /\ message_queue' = rest
                    /\ o_ret' = [value |-> TRUE, message |-> id, outcome |-> "unroutable"]
               ELSE /\ messages' = [messages EXCEPT
                                       ![id].destination = routes[message.message_type],
                                       ![id].status = "pending"]
                    /\ delivery_history' = Appended(delivery_history, id, "forwarded")
                    /\ message_queue' = PutBack(rest, messages'[id], id)
                    /\ o_ret' = [value |-> TRUE, message |-> id, outcome |-> "forwarded"]
    /\ UNCHANGED <<routing_table, handlers, component_status, now>>
    /\ UnchangedExcept("proto")

\* update_component_status (lines 202-218) on a registered component.
UpdateComponentStatus(component_id, status) ==
    /\ component_id \in DOMAIN component_status
    /\ component_status[component_id] # status
    /\ component_status' = [component_status EXCEPT ![component_id] = status]
    /\ o_op' = "update"
    /\ o_ret' = [value |-> TRUE, message |-> NoMessageId, outcome |-> "none"]
    /\ UNCHANGED <<routing_table, handlers, message_queue, messages,
                   delivery_history, now>>
    /\ UnchangedExcept("proto")

Send ==
    \E source \in {"component1"}, destination \in Components \cup {Unregistered},
       message_type \in MessageTypes, priority \in Priorities :
        SendMessage(source, destination, message_type, priority)

\* route_message() without an argument.
RouteNext == RouteMessage(NoMessageId)

\* route_message(message_id) for the id of a message that was sent.
RouteRequested == \E message_id \in 1..Len(messages) : RouteMessage(message_id)

UpdateStatus ==
    \E component_id \in {"component2"}, status \in {"active", "inactive"} :
        UpdateComponentStatus(component_id, status)

InitProto == ProtoInit /\ IdleExcept("proto")

NextProto == Tick \/ Send \/ RouteNext \/ RouteRequested \/ UpdateStatus

SpecProto == InitProto /\ [][NextProto]_vars

\* route_message() is called again and again.
SpecProtoFair == SpecProto /\ WF_vars(RouteNext)

(***************************************************************************)
(* Properties of the orchestration protocol.                               *)
(***************************************************************************)
\* C22: every route_message call that routes a message routes the pending
\* message with the smallest priority number and, among the pending
\* messages of that priority, the one that was sent first, also when
\* forwarded or skipped messages were put back on the queue before.
C22_RoutesByPriorityThenFifo ==
    [][(o_op' = "route" /\ o_ret'.message # NoMessageId) =>
          \A k \in 1..Len(message_queue) :
              message_queue[k].id # o_ret'.message =>
                  \/ messages[o_ret'.message].priority < message_queue[k].priority
                  \/ /\ messages[o_ret'.message].priority = message_queue[k].priority
                     /\ o_ret'.message < message_queue[k].id]_vars

\* C23: a message whose last record says it was delivered has status
\* 'delivered', whether it was forwarded before or not, and a message
\* routed while its destination was not active has status 'failed'.
C23_StatusTellsTheOutcome ==
    /\ [](\A id \in 1..Len(messages) :
             delivery_history[id].last = "delivered" =>
                 get_message_status(delivery_history, id) = "delivered")
    /\ [][(o_op' = "route" /\ o_ret'.outcome = "inactive") =>
             get_message_status(delivery_history', o_ret'.message) = "failed"]_vars

\* C30: when route_message() is called again and again, every message that
\* send_message accepted gets a last record with a terminal status, and a
\* queue that holds messages becomes empty.
C30_EveryMessageEnds ==
    /\ \A id \in 1..MaxMessages :
          (id <= Len(messages)) ~>
              (id <= Len(messages) /\ delivery_history[id].last \in TerminalStatuses)
    /\ (message_queue # <<>>) ~> (message_queue = <<>>)

(***************************************************************************)
(* ResourceManager (resource_management.py:15-130).  Amounts and           *)
(* capacities are whole units; a pool is a record [capacity, available,    *)
(* allocations] with allocations a function from cluster ids to amounts,   *)
(* and a history entry is a record [resource_id, cluster_id, amount,       *)
(* status].                                                                *)
(***************************************************************************)
PoolIds == {"pool1", "pool2"}

ClusterIds == {"cluster1", "cluster2"}

Amounts == 0..MaxAmount

\* release_resource's `amount=None`.
NoAmount == 0 - 1

\* A manager that allocates whatever is asked for.
NeverInsufficient(pool, amount) == FALSE

\* Line 70.
Insufficient(pool, amount) == pool.available < amount

\* pool['allocations'].get(cluster_id, 0)
AllocationOf(pool, cluster_id) ==
    IF cluster_id \in DOMAIN pool.allocations THEN pool.allocations[cluster_id] ELSE 0

\* The function f with f[k] = v added or overwritten.
WithKey(f, k, v) == [x \in DOMAIN f \cup {k} |-> IF x = k THEN v ELSE f[x]]

\* del f[k]
WithoutKey(f, k) == [x \in DOMAIN f \ {k} |-> f[x]]

\* Lines 123-128: the index of the newest active record of the pool and
\* the cluster, 0 when there is none.
NewestActive(history, pool_id, cluster_id) ==
    SetMax({k \in 1..Len(history) :
               /\ history[k].resource_id = pool_id
               /\ history[k].cluster_id = cluster_id
               /\ history[k].status = "active"})

\* Lines 111-130, once the call is accepted.
Released(pool, cluster_id, release_amount) ==
    LET left == pool.allocations[cluster_id] - release_amount
    IN [pool EXCEPT !.available = @ + release_amount,
                    !.allocations = IF left = 0
                                    THEN WithoutKey(@, cluster_id)
                                    ELSE [@ EXCEPT ![cluster_id] = left]]

ResInit ==
    /\ resource_pools = <<>>
    /\ allocation_history = <<>>
    /\ r_op = "none"
    /\ r_ret = "none"
    /\ r_calls = 0

\* add_resource_pool (lines 29-51).
AddResourcePool(pool_id, capacity) ==
    /\ r_calls < MaxResourceCalls
    /\ r_calls' = r_calls + 1
    /\ r_op' = "add_resource_pool"
    /\ IF pool_id \in DOMAIN resource_pools
       THEN /\ r_ret' = "rejected"
            /\ UNCHANGED resource_pools
       ELSE /\ r_ret' = "accepted"
            /\ resource_pools' = WithKey(resource_pools, pool_id,
                                         [capacity |-> capacity,
                                          available |-> capacity,
                                          allocations |-> <<>>])
    /\ UNCHANGED allocation_history
    /\ UnchangedExcept("res")

\* allocate_resource (lines 53-87).
AllocateResource(pool_id, cluster_id, amount) ==
    /\ r_calls < MaxResourceCalls
    /\ r_calls' = r_calls + 1
    /\ r_op' = "allocate_resource"
    /\ IF pool_id \notin DOMAIN resource_pools
       THEN /\ r_ret' = "rejected"
            /\ UNCHANGED <<resource_pools, allocation_history>>
       ELSE IF Insufficient(resource_pools[pool_id], amount)
       THEN /\ r_ret' = "rejected"
            /\ UNCHANGED <<resource_pools, allocation_history>>
       ELSE /\ r_ret' = "accepted"
            /\ resource_pools' =
                  [resource_pools EXCEPT
                      ![pool_id].available = @ - amount,
                      ![pool_id].allocations =
                          WithKey(@, cluster_id,
                                  AllocationOf(resource_pools[pool_id], cluster_id) + amount)]
            /\ allocation_history' =
                  Append(allocation_history,
                         [resource_id |-> pool_id, cluster_id |-> cluster_id,
                          amount |-> amount, status |-> "active"])
    /\ UnchangedExcept("res")

\* release_resource (lines 89-130).
ReleaseResource(pool_id, cluster_id, amount) ==
    /\ r_calls < MaxResourceCalls
    /\ r_calls' = r_calls + 1
    /\ r_op' = "release_resource"
    /\ IF pool_id \notin DOMAIN resource_pools
       THEN /\ r_ret' = "rejected"
            /\ UNCHANGED <<resource_pools, allocation_history>>
       ELSE LET pool == resource_pools[pool_id]
                current_allocation == AllocationOf(pool, cluster_id)
                release_amount == IF amount # NoAmount THEN amount ELSE current_allocation
                newest == NewestActive(allocation_history, pool_id, cluster_id)
            IN IF current_allocation = 0 \/ release_amount > current_allocation
               THEN /\ r_ret' = "rejected"
                    /\ UNCHANGED <<resource_pools, allocation_history>>
               ELSE /\ r_ret' = "accepted"
                    /\ resource_pools' =
                          [resource_pools EXCEPT
                              ![pool_id] = Released(pool, cluster_id, release_amount)]
                    /\ allocation_history' =
                          IF newest = 0 THEN allocation_history
                          ELSE [allocation_history EXCEPT ![newest].status = "released"]
    /\ UnchangedExcept("res")

AddPool == \E pool_id \in PoolIds, capacity \in Amounts : AddResourcePool(pool_id, capacity)

Allocate ==
    \E pool_id \in PoolIds, cluster_id \in ClusterIds, amount \in Amounts :
        AllocateResource(pool_id, cluster_id, amount)

Release ==
    \E pool_id \in PoolIds, cluster_id \in ClusterIds, amount \in Amounts \cup {NoAmount} :
        ReleaseResource(pool_id, cluster_id, amount)

InitRes == ResInit /\ IdleExcept("res")

NextRes == AddPool \/ Allocate \/ Release

SpecRes == InitRes /\ [][NextRes]_vars

SplitAbove == 100

\* The numbers of agents a cluster is created with.
ClusterSizes == {2, SplitAbove + 1}

\* The numbers of agents of the one sub-cluster a root may be given.
SubClusterSizes == {0, 1}

\* get_total_agents (lines 32-37).
RECURSIVE get_total_agents(_, _)
get_total_agents(objs, c) ==
    Len(objs[c].agents)
        + SumSeq([k \in 1..Len(objs[c].sub_clusters) |->
                     get_total_agents(objs, objs[c].sub_clusters[k])])

\* The agents held by a cluster and by the clusters below it.
RECURSIVE AgentsUnder(_, _)
AgentsUnder(objs, c) ==
    {objs[c].agents[k] : k \in 1..Len(objs[c].agents)}
        \cup UNION {AgentsUnder(objs, objs[c].sub_clusters[k]) :
                       k \in 1..Len(objs[c].sub_clusters)}

\* add_sub_cluster (lines 21-26) of a cluster without sub-clusters:
\* `cluster not in self.sub_clusters` compares the dataclasses by value.
add_sub_cluster(objs, c, new) ==
    IF \E k \in 1..Len(objs[c].sub_clusters) :
           /\ objs[objs[c].sub_clusters[k]].agents = objs[new].agents
           /\ objs[objs[c].sub_clusters[k]].sub_clusters = <<>>
    THEN objs
    ELSE [objs EXCEPT ![c].sub_clusters = Append(@, new)]

\* A function with one more key.
Assigned(assignments, key, agents) ==
    [k \in DOMAIN assignments \cup {key} |-> IF k = key THEN agents ELSE assignments[k]]

\* _split_cluster (lines 231-254): the heap and the assignments after it.
_split_cluster(objs, assignments, c) ==
    LET agents == objs[c].agents
        mid == Len(agents) \div 2
        n == Len(objs)
        sub_cluster1 == [agents |-> SubSeq(agents, 1, mid), sub_clusters |-> <<>>]
        sub_cluster2 == [agents |-> SubSeq(agents, mid + 1, Len(agents)), sub_clusters |-> <<>>]
        created == [Append(Append(objs, sub_cluster1), sub_cluster2) EXCEPT ![c].agents = <<>>]
    IN [objs |-> add_sub_cluster(add_sub_cluster(created, c, n + 1), c, n + 2),
        assignments |-> Assigned(Assigned(assignments, n + 1, sub_cluster1.agents),
                                 n + 2, sub_cluster2.agents)]

\* Lines 203-206, for one cluster.
SplitOrKeep(objs, assignments, c) ==
    IF get_total_agents(objs, c) > SplitAbove
    THEN _split_cluster(objs, assignments, c)
    ELSE [objs |-> objs, assignments |-> Assigned(assignments, c, objs[c].agents)]

\* _classical_optimization (lines 198-208) from root number i on.
RECURSIVE ClassicalFrom(_, _, _, _)
ClassicalFrom(roots, objs, assignments, i) ==
    IF i > Len(roots) THEN [objs |-> objs, assignments |-> assignments]
    ELSE LET step == SplitOrKeep(objs, assignments, roots[i])
         IN ClassicalFrom(roots, step.objs, step.assignments, i + 1)

_classical_optimization(roots, objs) == ClassicalFrom(roots, objs, <<>>, 1)

\* What solution[str(i)] can be for a root: a number above 0.5, a number
\* that is not (or no entry), or a value float() rejects.
ConfigurationValues == {"one", "zero", "malformed"}

\* _process_quantum_result (lines 176-196) from root number i on; float()
\* raises ValueError on a malformed value.
RECURSIVE ProcessFrom(_, _, _, _, _)
ProcessFrom(roots, objs, assignments, configuration, i) ==
    IF i > Len(roots)
    THEN [raised |-> FALSE, objs |-> objs, assignments |-> assignments]
    ELSE IF configuration[i] = "malformed"
    THEN [raised |-> TRUE, objs |-> objs, assignments |-> assignments]
    ELSE LET step == IF configuration[i] = "one"
                     THEN SplitOrKeep(objs, assignments, roots[i])
                     ELSE _split_cluster(objs, assignments, roots[i])
         IN ProcessFrom(roots, step.objs, step.assignments, configuration, i + 1)

\* Root r, object number `at`, created with n agents and, when m > 0, one
\* sub-cluster of m agents; every agent id is used once.
AgentId(r, k) == r * 1000 + k

RootObjects(r, at, n, m) ==
    IF m = 0
    THEN <<[agents |-> [k \in 1..n |-> AgentId(r, k)], sub_clusters |-> <<>>]>>
    ELSE <<[agents |-> [k \in 1..n |-> AgentId(r, k)], sub_clusters |-> <<at + 1>>],
           [agents |-> [k \in 1..m |-> AgentId(r, n + k)], sub_clusters |-> <<>>]>>

\* create_cluster, add_agent and add_sub_cluster calls before the first
\* optimisation: one root, or two.
ClusterInit ==
    /\ \E n1 \in ClusterSizes, m1 \in SubClusterSizes :
          LET first == RootObjects(1, 1, n1, m1)
          IN \/ /\ cluster_objects = first
                /\ root_clusters = <<1>>
             \/ /\ MaxRoots >= 2
                /\ \E n2 \in ClusterSizes, m2 \in SubClusterSizes :
                      /\ cluster_objects =
                            first \o RootObjects(2, Len(first) + 1, n2, m2)
                      /\ root_clusters = <<1, Len(first) + 1>>
    /\ structure = <<>>
    /\ k_path = "none"
    /\ k_calls = 0

\* optimize_cluster_structure (lines 72-98) when submit_qubo or
\* wait_for_job raises, or when the result has no solutions.
OptimizeClassically ==
    /\ k_calls < MaxOptimizeCalls
    /\ k_calls' = k_calls + 1
    /\ k_path' = "classical"
    /\ LET done == _classical_optimization(root_clusters, cluster_objects)
       IN /\ cluster_objects' = done.objs
          /\ structure' = done.assignments
    /\ UNCHANGED root_clusters
    /\ UnchangedExcept("clus")

\* optimize_cluster_structure when the job returns a solution.
OptimizeQuantum ==
    /\ k_calls < MaxOptimizeCalls
    /\ k_calls' = k_calls + 1
    /\ \E configuration \in [1..Len(root_clusters) -> ConfigurationValues] :
          LET processed == ProcessFrom(root_clusters, cluster_objects, <<>>, configuration, 1)
              fallback == _classical_optimization(root_clusters, processed.objs)
          IN IF processed.raised
             THEN /\ k_path' = "quantum_raised"
                  /\ cluster_objects' = fallback.objs
                  /\ structure' = fallback.assignments
             ELSE /\ k_path' = "quantum"
                  /\ cluster_objects' = processed.objs
                  /\ structure' = processed.assignments
    /\ UNCHANGED root_clusters
    /\ UnchangedExcept("clus")

InitClus == ClusterInit /\ IdleExcept("clus")

NextClus == OptimizeClassically \/ OptimizeQuantum

SpecClus == InitClus /\ [][NextClus]_vars

\* How often an agent stands in the returned lists.
Occurrences(assignments, agent) ==
    Cardinality({p \in UNION {{<<key, k>> : k \in 1..Len(assignments[key])} :
                                 key \in DOMAIN assignments} :
                    assignments[p[1]][p[2]] = agent})

\* C25: after every optimize_cluster_structure call, the first and the
\* later ones, on either path, every agent of every root cluster and of
\* the clusters below it stands exactly once in the returned lists.
C25_EveryAgentAssignedOnce ==
    k_calls > 0 =>
        \A r \in 1..Len(root_clusters) :
            \A agent \in AgentsUnder(cluster_objects, root_clusters[r]) :
                Occurrences(structure, agent) = 1

(***************************************************************************)
(* QAOAOptimizer._apply_mixing_operator on its own                         *)
(* (qaoa_optimizer.py:130-153): input states of 1..MaxQubits qubits with   *)
(* amplitudes 0, 1, i or 1 + i (not normalised; the operator is linear)    *)
(* and beta a multiple of pi/2.                                            *)
(***************************************************************************)
MixAmplitudes == [re : {0, 1}, im : {0, 1}]

MixInit ==
    /\ \E n \in 1..MaxQubits : m_state \in [1..Pow2(n) -> MixAmplitudes]
    /\ m_beta \in BetaGrid
    /\ m_result = <<>>
    /\ m_pc = "call"

\* mixed_state = optimizer._apply_mixing_operator(state, beta)
ApplyMixing ==
    /\ m_pc = "call"
    /\ m_result' = _apply_mixing_operator(m_state, m_beta)
    /\ m_pc' = "returned"
    /\ UNCHANGED <<m_state, m_beta>>
    /\ UnchangedExcept("mix")

InitMix == MixInit /\ IdleExcept("mix")

NextMix == ApplyMixing

SpecMix == InitMix /\ [][NextMix]_vars

\* The rotation applied to the qubit axes 0..q-1 one after the other.
RECURSIVE ProductUpTo(_, _, _)
ProductUpTo(state, beta, q) ==
    IF q = 0 THEN state
    ELSE RotatedAxis(ProductUpTo(state, beta, q - 1), beta, q - 1)

\* C28: for every number of qubits n >= 1 and every input state the mixing
\* operator returns the state with the 2x2 rotation applied to each of the
\* n qubit axes.
C28_MixesEveryQubit ==
    m_pc = "returned" =>
        m_result = ProductUpTo(m_state, m_beta, Log2(Len(m_state)))

====
